---- MODULE Spec2Model ----
(***************************************************************************)
(* ICMsg-with-buffers IPC backend                                          *)
(* (subsys/ipc/ipc_service/backends/ipc_icmsg_with_buf.c).                 *)
(*                                                                         *)
(* Two sides (0 and 1) share two unidirectional regions.  shmem[s] is the  *)
(* blocks area side s transmits in: it is the TX channel of s and the RX   *)
(* channel of Peer(s).  icmsg[s] is the queue of 2-byte ICMsg messages in  *)
(* flight from s to Peer(s).                                               *)
(*                                                                         *)
(* size_t, uint32_t and int are modelled WordBits wide (the target is a    *)
(* 32-bit build; the width is scaled down so that the wrap-around values   *)
(* stay enumerable).                                                       *)
(***************************************************************************)
EXTENDS Integers, Sequences, FiniteSets, TLC

(***************************************************************************)
(* Program constants                                                       *)
(***************************************************************************)
EPT_ADDR_INVALID == 255
MSG_RELEASE_DATA == 254
MSG_BOUND == 253
MSG_RELEASE_BOUND == 252
EPT_ADDR_MAX == 251
WAITING_BOUND_MSG_EMPTY == 65535
BLOCK_ALIGNMENT == 4
\* shmem_nrf53.c; NO_ACK is 0xFFFFFFFF, written as the signed 32-bit number
ITEM_SIZE == 4
NO_ACK == -1
BLOCK_HEADER_SIZE == 4

EINVAL == 22
ENOSPC == 28
EAGAIN == 11
ENOMEM == 12
EFAULT == 14
EIO == 5

EPT_UNCONFIGURED == 0
EPT_CONFIGURED == 1
EPT_BOUNDING == 2
EPT_BOUNDED == 3
EPT_READY == 4

(***************************************************************************)
(* Bounds of the model                                                     *)
(***************************************************************************)
\* width of size_t / uint32_t / int
WordBits == 6
\* block size in alignment units (the build requires more than one)
BlockWords == 2
\* number of blocks of each channel (tx-blocks = rx-blocks)
BlockCount == 3
\* CONFIG_IPC_SERVICE_BACKEND_ICMSG_WITH_BUF_NUM_EP
NUM_EP == 2
\* tx_count = rx_count: the items of the FIFO's ring
FifoCount == 4
\* the messages the sending thread sends
MaxSends == 3

RECURSIVE Pow2(_)
Pow2(n) == IF n = 0 THEN 1 ELSE 2 * Pow2(n - 1)

SIZE_MOD == Pow2(WordBits)
INT_MAX == Pow2(WordBits - 1) - 1
BlockSize == BLOCK_ALIGNMENT * BlockWords
Blocks == 0 .. (BlockCount - 1)
Sides == {0, 1}
Peer(s) == 1 - s
Threads == {1, 2}

Min(a, b) == IF a < b THEN a ELSE b

\* conversion of a size_t value to int (two's complement)
ToInt(v) == IF v > INT_MAX THEN v - SIZE_MOD ELSE v

(***************************************************************************)
(* sys_bitarray (lib/os/bitarray.c): a bitmap is a function Blocks ->      *)
(* BOOLEAN; every call is atomic (it takes the bitarray's spinlock).       *)
(***************************************************************************)
PopCount(bm) == Cardinality({b \in Blocks : bm[b]})

RunFree(bm, off, n) == \A b \in off .. (off + n - 1) : ~bm[b]
RunSet(bm, off, n) == \A b \in off .. (off + n - 1) : bm[b]

\* first fit of n clear bits; [r, offset, bm]
sys_bitarray_alloc(bm, n) ==
  IF n = 0 \/ n > BlockCount
  THEN [r |-> -EINVAL, offset |-> 0, bm |-> bm]
  ELSE LET fits == {off \in 0 .. (BlockCount - n) : RunFree(bm, off, n)}
       IN IF fits = {}
          THEN [r |-> -ENOSPC, offset |-> 0, bm |-> bm]
          ELSE LET off == CHOOSE o \in fits : \A p \in fits : o <= p
               IN [r |-> 0, offset |-> off,
                   bm |-> [b \in Blocks |->
                             IF b >= off /\ b < off + n THEN TRUE ELSE bm[b]]]

\* clears n set bits at offset; [r, bm]
sys_bitarray_free(bm, n, off) ==
  IF n = 0 \/ n > BlockCount \/ off >= BlockCount \/ off + n > BlockCount
  THEN [r |-> -EINVAL, bm |-> bm]
  ELSE IF ~RunSet(bm, off, n)
       THEN [r |-> -EFAULT, bm |-> bm]
       ELSE [r |-> 0,
             bm |-> [b \in Blocks |->
                       IF b >= off /\ b < off + n THEN FALSE ELSE bm[b]]]

(***************************************************************************)
(* Block arithmetic                                                        *)
(***************************************************************************)
\* total_size = size + BLOCK_HEADER_SIZE, in size_t arithmetic
TotalSize(size) == (size + BLOCK_HEADER_SIZE) % SIZE_MOD

\* (total_size + block_size - 1) / block_size, in size_t arithmetic
NumBlocks(size) == ((TotalSize(size) + BlockSize - 1) % SIZE_MOD) \div BlockSize

\* *size = block_size * num_blocks - BLOCK_HEADER_SIZE
GrantedSize_noheader(num_blocks) == (BlockSize * num_blocks) % SIZE_MOD
GrantedSize(num_blocks) == (BlockSize * num_blocks - BLOCK_HEADER_SIZE) % SIZE_MOD

\* allocable_size - BLOCK_HEADER_SIZE
MaxAlloc == BlockCount * BlockSize - BLOCK_HEADER_SIZE

\* the validation of the index alone
ValidBlock_index(mem, index) == index < BlockCount

\* the validation without its comparison against end_ptr
ValidBlock_noend(mem, index) ==
  /\ index < BlockCount
  /\ mem[index].size <= BlockCount * BlockSize - BLOCK_HEADER_SIZE

\* buffer_from_index_validate with size != NULL: the index is in range and
\* the header's size keeps data[size] inside the blocks area
ValidBlock(mem, index) ==
  /\ index < BlockCount
  /\ mem[index].size <= BlockCount * BlockSize - BLOCK_HEADER_SIZE
  /\ index * BlockSize + BLOCK_HEADER_SIZE + mem[index].size <= BlockCount * BlockSize

(***************************************************************************)
(* State                                                                   *)
(***************************************************************************)
VARIABLES
  tx_usage_bitmap,    \* [side] conf->tx_usage_bitmap
  rx_hold_bitmap,     \* [side] conf->rx_hold_bitmap
  shmem,              \* [side][block] header size and data of the TX blocks
  block_wait_sem,     \* [side] dev_data->block_wait_sem (limit 1)
  ept,                \* [side][index] dev_data->ept[]
  ept_count,          \* [side] dev_data->ept_count
  waiting_bound_msg,  \* [side][slot] dev_data->waiting_bound_msg[]
  icmsg_bounded,      \* [side] dev_data->icmsg_bounded
  work,               \* [side] ep_bound_work: queued flag and the handler's position
  icmsg,              \* [side] ICMsg messages in flight to the peer
  thr,                \* [side][thread] application threads
  rxh,                \* [side] position of the ICMsg receive callback
  log,                \* [side] history of callbacks and calls (not program state)
  fifo,               \* the shared-memory FIFO of shmem_nrf53.c and its two users
  mutex,              \* dev_data->mutex of one instance and the contexts that take it
  conf,               \* [side] the channel geometry DEFINE_BACKEND_DEVICE computed
  ram                 \* [side][block] the TX blocks in backing memory (shmem: in the cache)

vars == <<tx_usage_bitmap, rx_hold_bitmap, shmem, block_wait_sem, ept, ept_count,
          waiting_bound_msg, icmsg_bounded, work, icmsg, thr, rxh, log, fifo, mutex, conf, ram>>

eptVars == <<ept, ept_count, waiting_bound_msg, icmsg_bounded, work>>
rxVars == <<rx_hold_bitmap, rxh>>

NoBuf == [idx |-> -1, size |-> 0]

ThrIdle == [pc |-> "idle", op |-> "none", size |-> 0, timeout |-> "K_NO_WAIT",
            sem_taken |-> FALSE, waited |-> FALSE, idx |-> 0, next_bit |-> 0,
            n |-> 0, r |-> 0, buf |-> NoBuf]

EptEmpty == [name |-> <<>>, remote_addr |-> 0, state |-> EPT_UNCONFIGURED]

WorkIdle == [queued |-> FALSE, pc |-> "idle", i |-> 0, r |-> 0]

RxIdle == [pc |-> "idle", idx |-> 0, addr |-> 0, stale |-> FALSE, held |-> FALSE,
           bufs |-> {}]

NoSnap == [on |-> FALSE, bm |-> [b \in Blocks |-> FALSE]]

\* what a receive callback is given: the endpoint's name, the length, the bytes
NoMsg == [name |-> <<>>, len |-> 0, data |-> <<>>]
Unexpected == [name |-> <<>>, len |-> -1, data |-> <<>>]

\* bound_cb: calls of each bound callback; sent: messages sent with success
\* and not yet given to the peer's callback; last: what the receive callback
\* was given last, expect: the oldest message the peer had sent then; snap:
\* TX bitmap before a send made in a quiet state; reg: the last call of
\* register_ept, its result and token (-1 is NULL); rx: the result of the last
\* received_bound; ops, fails, dups, bad: budgets
NoReg == [name |-> <<>>, r |-> 0, token |-> -1]

\* the last call that was given a buffer pointer: the pointer, whether the
\* size was asked for, what buffer_to_index_validate returned; n counts them
NoCall == [op |-> "none", buffer |-> 0, check |-> FALSE, index |-> 0, n |-> 0]

LogEmpty == [bound_cb |-> [e \in 0 .. (NUM_EP - 1) |-> 0],
             sent |-> <<>>, last |-> NoMsg, expect |-> NoMsg, got |-> 0,
             snap |-> NoSnap, reg |-> NoReg, rx |-> 0, ops |-> 0, fails |-> 0,
             dups |-> 0, bad |-> 0, call |-> NoCall]

\* shmem_nrf53.c: the indexes and the items of one direction, the two
\* semaphores, the sending thread (tx) and the receiving thread (rx); sent:
\* the messages made available and not yet handed to rx_handler, n: the
\* number of sends that returned 0, ok: every message handed to rx_handler
\* was the oldest of sent (the last three are not program state)
TxIdle == [pc |-> "idle", size |-> 0, oob_data |-> 0, read_index |-> 0,
           write_index |-> 0, r |-> 0]

RxThreadIdle == [pc |-> "idle", read_index |-> 0, old_read_index |-> 0,
                 write_index |-> 0, buf |-> <<>>, oob_data |-> 0, result |-> 0]

\* shmem_init on both cores: the indexes are 0, no ACK is asked for; the
\* handshake leaves tx_sem taken or given once more
FifoInit(sem) ==
  [read_index |-> 0, write_index |-> 0, ack_index |-> NO_ACK,
   data |-> [k \in 0 .. (FifoCount * ITEM_SIZE - 1) |-> 0],
   tx_sem |-> sem, rx_sem |-> 0, tx |-> TxIdle, rx |-> RxThreadIdle,
   sent |-> <<>>, n |-> 0, ok |-> TRUE]

\* no device is defined yet
NoConf == [s \in Sides |-> [built |-> FALSE]]

\* the backing memory is not looked at
NoRam == <<>>

\* backing memory before anything was flushed to it
RamInit == [s \in Sides |-> [b \in Blocks |-> [size |-> 0, data |-> <<>>]]]

\* the contexts of one side that take dev_data->mutex: an application thread,
\* the system workqueue running ept_bound_process, and the ICMsg callback context
MutexCtx == {"app", "work", "rx"}

\* TX blocks of the side in the mutex model
MutexBlocks == 1

\* k_mutex_init: nobody owns the mutex, every context is outside the backend,
\* all TX blocks are free
MutexInit ==
  [owner |-> "none", pc |-> [c \in MutexCtx |-> "idle"],
   what |-> [c \in MutexCtx |-> "none"], r |-> [c \in MutexCtx |-> 0],
   link |-> [c \in MutexCtx |-> 0], free |-> MutexBlocks, pending |-> 0,
   queued |-> FALSE, waited |-> FALSE, n |-> 0]

\* backend_init: bitmaps clear, semaphore 0, waiting table 0xFFFF, the rest zero
InitDevice ==
  /\ tx_usage_bitmap = [s \in Sides |-> [b \in Blocks |-> FALSE]]
  /\ rx_hold_bitmap = [s \in Sides |-> [b \in Blocks |-> FALSE]]
  /\ shmem = [s \in Sides |-> [b \in Blocks |-> [size |-> 0, data |-> <<>>]]]
  /\ block_wait_sem = [s \in Sides |-> 0]
  /\ ept = [s \in Sides |-> [e \in 0 .. (NUM_EP - 1) |-> EptEmpty]]
  /\ ept_count = [s \in Sides |-> 0]
  /\ waiting_bound_msg = [s \in Sides |->
                            [e \in 0 .. (NUM_EP - 1) |-> WAITING_BOUND_MSG_EMPTY]]
  /\ icmsg_bounded = [s \in Sides |-> FALSE]
  /\ work = [s \in Sides |-> WorkIdle]
  /\ icmsg = [s \in Sides |-> <<>>]
  /\ thr = [s \in Sides |-> [t \in Threads |-> ThrIdle]]
  /\ rxh = [s \in Sides |-> RxIdle]

InitBackend == InitDevice /\ log = [s \in Sides |-> LogEmpty] /\ fifo = FifoInit(0) /\ mutex = MutexInit /\ conf = NoConf /\ ram = NoRam

\* k_sem_give on a semaphore of limit 1
k_sem_give(count) == Min(count + 1, 1)

(***************************************************************************)
(* alloc_tx_buffer, one step per kernel call.  A thread has at most one    *)
(* buffer (thr.buf holds what the call returned to it).                    *)
(***************************************************************************)
\* requested sizes: the "maximum available" form, one block, two blocks, more
\* than the region, and a size whose sum with the header wraps
AllocSizes ==
  {0, 1, BlockSize - BLOCK_HEADER_SIZE + 1, MaxAlloc + 1, SIZE_MOD - 1}

Timeouts == {"K_NO_WAIT", "K_MSEC", "K_FOREVER"}

\* lines 360-365: store the granted size in the header and return the index
AllocFinish(s, t, rec, n) ==
  /\ shmem' = [shmem EXCEPT ![s][rec.idx].size = GrantedSize(n)]
  /\ thr' = [thr EXCEPT ![s][t] =
               [ThrIdle EXCEPT !.op = "alloc", !.r = rec.idx,
                               !.buf = [idx |-> rec.idx, size |-> GrantedSize(n)]]]

\* lines 333-358 up to the first test-and-set of the size-0 form
AllocAfterLoop(s, t, rec) ==
  IF rec.r < 0
  THEN /\ thr' = [thr EXCEPT ![s][t] =
                    [ThrIdle EXCEPT !.op = "alloc", !.r = rec.r]]
       /\ UNCHANGED shmem
  ELSE IF rec.size = 0 /\ rec.idx + 1 < BlockCount
       THEN /\ thr' = [thr EXCEPT ![s][t] =
                         [rec EXCEPT !.pc = "extend", !.next_bit = rec.idx + 1]]
            /\ UNCHANGED shmem
       ELSE AllocFinish(s, t, rec, rec.n)

\* lines 326-331: leave the loop, giving the semaphore back first when it was taken
AllocLeaveLoop(s, t, rec) ==
  IF rec.sem_taken
  THEN /\ thr' = [thr EXCEPT ![s][t] = [rec EXCEPT !.pc = "give"]]
       /\ UNCHANGED shmem
  ELSE AllocAfterLoop(s, t, rec)

\* get_tx_buffer(size, timeout): entry of alloc_tx_buffer
AllocCall(s, t, size, timeout) ==
  /\ thr[s][t].pc = "idle"
  /\ thr[s][t].buf = NoBuf
  /\ thr' = [thr EXCEPT ![s][t] =
               [ThrIdle EXCEPT !.pc = "try", !.op = "alloc", !.size = size,
                               !.timeout = timeout, !.n = NumBlocks(size)]]
  /\ UNCHANGED <<tx_usage_bitmap, shmem, block_wait_sem, eptVars, rxVars, icmsg, log,
                 fifo, mutex, conf, ram>>

\* lines 309-323: sys_bitarray_alloc and the decision to wait
AllocTry(s, t) ==
  /\ thr[s][t].pc = "try"
  /\ LET rec == thr[s][t]
         a == sys_bitarray_alloc(tx_usage_bitmap[s], rec.n)
     IN /\ tx_usage_bitmap' = [tx_usage_bitmap EXCEPT ![s] = a.bm]
        /\ IF a.r = -ENOSPC /\ rec.timeout # "K_NO_WAIT"
           THEN /\ thr' = [thr EXCEPT ![s][t] =
                             [rec EXCEPT !.pc = "wait", !.waited = TRUE]]
                /\ UNCHANGED shmem
           ELSE AllocLeaveLoop(s, t, [rec EXCEPT !.r = a.r, !.idx = a.offset])
  /\ UNCHANGED <<block_wait_sem, eptVars, rxVars, icmsg, log, fifo, mutex, conf, ram>>

\* line 315: k_sem_take succeeds
AllocSemTake(s, t) ==
  /\ thr[s][t].pc = "wait"
  /\ block_wait_sem[s] > 0
  /\ block_wait_sem' = [block_wait_sem EXCEPT ![s] = @ - 1]
  /\ thr' = [thr EXCEPT ![s][t].pc = "try", ![s][t].sem_taken = TRUE]
  /\ UNCHANGED <<tx_usage_bitmap, shmem, eptVars, rxVars, icmsg, log, fifo, mutex, conf, ram>>

\* lines 315-318: k_sem_take times out
AllocSemTimeout(s, t) ==
  /\ thr[s][t].pc = "wait"
  /\ thr[s][t].timeout = "K_MSEC"
  /\ AllocLeaveLoop(s, t, [thr[s][t] EXCEPT !.r = -EAGAIN])
  /\ UNCHANGED <<tx_usage_bitmap, block_wait_sem, eptVars, rxVars, icmsg, log,
                 fifo, mutex, conf, ram>>

\* line 330: k_sem_give after the loop
AllocGive(s, t) ==
  /\ thr[s][t].pc = "give"
  /\ block_wait_sem' = [block_wait_sem EXCEPT ![s] = k_sem_give(@)]
  /\ AllocAfterLoop(s, t, thr[s][t])
  /\ UNCHANGED <<tx_usage_bitmap, eptVars, rxVars, icmsg, log, fifo, mutex, conf, ram>>

\* line 358: num_blocks = next_bit - tx_block_index
RunLength_stopper(tx_block_index, next_bit) == next_bit + 1 - tx_block_index
RunLength(tx_block_index, next_bit) == next_bit - tx_block_index

\* lines 347-357: one sys_bitarray_test_and_set_bit of the size-0 form
AllocExtend(s, t) ==
  /\ thr[s][t].pc = "extend"
  /\ LET rec == thr[s][t]
         prev_bit_val == tx_usage_bitmap[s][rec.next_bit]
     IN /\ tx_usage_bitmap' = [tx_usage_bitmap EXCEPT ![s][rec.next_bit] = TRUE]
        /\ IF prev_bit_val
           THEN AllocFinish(s, t, rec, RunLength(rec.idx, rec.next_bit))
           ELSE IF rec.next_bit + 1 < BlockCount
                THEN /\ thr' = [thr EXCEPT ![s][t].next_bit = rec.next_bit + 1]
                     /\ UNCHANGED shmem
                ELSE AllocFinish(s, t, rec, RunLength(rec.idx, rec.next_bit + 1))
  /\ UNCHANGED <<block_wait_sem, eptVars, rxVars, icmsg, log, fifo, mutex, conf, ram>>

(***************************************************************************)
(* release_tx_blocks and release_tx_buffer                                 *)
(***************************************************************************)
\* line 411: the first block to free in a partial release
release_index_first(tx_block_index, new_num_blocks) == tx_block_index
release_index(tx_block_index, new_num_blocks) == tx_block_index + new_num_blocks

\* release_tx_blocks up to and including sys_bitarray_free; give: whether
\* k_sem_give follows.  new_size is an int.
release_tx_blocks(bm, mem, tx_block_index, size, new_size) ==
  LET num_blocks == NumBlocks(size)
      new_num_blocks == NumBlocks(new_size)
  IN IF new_size >= 0 /\ new_num_blocks > num_blocks
     THEN [r |-> -EINVAL, bm |-> bm, mem |-> mem, give |-> FALSE]
     ELSE LET rel_index == IF new_size >= 0
                           THEN release_index(tx_block_index, new_num_blocks)
                           ELSE tx_block_index
              n == IF new_size >= 0 THEN num_blocks - new_num_blocks ELSE num_blocks
              mem2 == IF new_size >= 0
                      THEN [mem EXCEPT ![tx_block_index].size = new_size]
                      ELSE mem
          IN IF n > 0
             THEN LET f == sys_bitarray_free(bm, n, rel_index)
                  IN IF f.r < 0
                     THEN [r |-> f.r, bm |-> bm, mem |-> mem2, give |-> FALSE]
                     ELSE [r |-> tx_block_index, bm |-> f.bm, mem |-> mem2,
                           give |-> TRUE]
             ELSE [r |-> tx_block_index, bm |-> bm, mem |-> mem2, give |-> FALSE]

\* release_tx_buffer: buffer_to_index_validate on the TX channel, then
\* release_tx_blocks with the size read from the header
release_tx_buffer(bm, mem, index, new_size) ==
  IF ~ValidBlock(mem, index)
  THEN [r |-> -EINVAL, bm |-> bm, mem |-> mem, give |-> FALSE]
  ELSE release_tx_blocks(bm, mem, index, mem[index].size, new_size)

\* new_size values: -1 is the full release of drop_tx_buffer
ReleaseSizes ==
  {-1, 0, BlockSize - BLOCK_HEADER_SIZE + 1, 2 * BlockSize - BLOCK_HEADER_SIZE}

\* release_tx_buffer(buffer, new_size) on the thread's buffer, up to sys_bitarray_free
ReleaseCall(s, t, new_size) ==
  /\ thr[s][t].pc = "idle"
  /\ thr[s][t].buf # NoBuf
  /\ LET rec == thr[s][t]
         res == release_tx_buffer(tx_usage_bitmap[s], shmem[s], rec.buf.idx, new_size)
         buf2 == IF res.r < 0 THEN rec.buf
                 ELSE IF new_size < 0 THEN NoBuf
                 ELSE [idx |-> rec.buf.idx, size |-> new_size]
     IN /\ tx_usage_bitmap' = [tx_usage_bitmap EXCEPT ![s] = res.bm]
        /\ shmem' = [shmem EXCEPT ![s] = res.mem]
        /\ thr' = [thr EXCEPT ![s][t] =
                     [ThrIdle EXCEPT !.pc = IF res.give THEN "rel_give" ELSE "idle",
                                     !.op = IF new_size < 0 THEN "drop" ELSE "shrink",
                                     !.size = new_size, !.r = res.r, !.buf = buf2]]
  /\ UNCHANGED <<block_wait_sem, eptVars, rxVars, icmsg, log, fifo, mutex, conf, ram>>

\* line 428: k_sem_give after the bits were freed
ReleaseGive(s, t) ==
  /\ thr[s][t].pc = "rel_give"
  /\ block_wait_sem' = [block_wait_sem EXCEPT ![s] = k_sem_give(@)]
  /\ thr' = [thr EXCEPT ![s][t].pc = "idle"]
  /\ UNCHANGED <<tx_usage_bitmap, shmem, eptVars, rxVars, icmsg, log, fifo, mutex, conf, ram>>

(***************************************************************************)
(* SpecAlloc: the TX allocator of side 0 used by concurrent local threads  *)
(***************************************************************************)
InitAlloc == InitBackend

NextAlloc ==
  \E t \in Threads :
    \/ \E size \in AllocSizes, timeout \in Timeouts : AllocCall(0, t, size, timeout)
    \/ AllocTry(0, t)
    \/ AllocSemTake(0, t)
    \/ AllocSemTimeout(0, t)
    \/ AllocGive(0, t)
    \/ AllocExtend(0, t)
    \/ \E new_size \in ReleaseSizes : ReleaseCall(0, t, new_size)
    \/ ReleaseGive(0, t)

SpecAlloc == InitAlloc /\ [][NextAlloc]_vars

\* SpecAllocSeq: the same calls, each running to its return (or to its wait)
\* before the other thread makes a step; the history keeps the TX bitmap
\* every call of the size-0 form started on
Undisturbed(t) == \A u \in Threads \ {t} : thr[0][u].pc = "idle"

AllocCallSeq(s, t, size, timeout) ==
  /\ thr[s][t].pc = "idle"
  /\ thr[s][t].buf = NoBuf
  /\ thr' = [thr EXCEPT ![s][t] =
               [ThrIdle EXCEPT !.pc = "try", !.op = "alloc", !.size = size,
                               !.timeout = timeout, !.n = NumBlocks(size)]]
  /\ log' = [log EXCEPT ![s].snap = [on |-> size = 0, bm |-> tx_usage_bitmap[s]]]
  /\ UNCHANGED <<tx_usage_bitmap, shmem, block_wait_sem, eptVars, rxVars, icmsg,
                 fifo, mutex, conf, ram>>

NextAllocSeq ==
  \E t \in Threads :
    \/ \E size \in AllocSizes, timeout \in Timeouts :
         Undisturbed(t) /\ AllocCallSeq(0, t, size, timeout)
    \/ Undisturbed(t) /\ AllocTry(0, t)
    \/ Undisturbed(t) /\ AllocSemTake(0, t)
    \/ Undisturbed(t) /\ AllocSemTimeout(0, t)
    \/ Undisturbed(t) /\ AllocGive(0, t)
    \/ Undisturbed(t) /\ AllocExtend(0, t)
    \/ \E new_size \in ReleaseSizes : Undisturbed(t) /\ ReleaseCall(0, t, new_size)
    \/ Undisturbed(t) /\ ReleaseGive(0, t)

SpecAllocSeq == InitAlloc /\ [][NextAllocSeq]_vars

(***************************************************************************)
(* ICMsg link.  icmsg_send_wrapper sends one 2-byte message under the      *)
(* instance mutex; the link delivers in order.  A send may fail while the  *)
(* side's failure budget (log.fails) lasts.                                *)
(***************************************************************************)
LinkOutcomes(s) == IF log[s].fails > 0 THEN {TRUE, FALSE} ELSE {TRUE}

\* r of icmsg_send_wrapper
LinkResult(ok) == IF ok THEN 0 ELSE -EIO

\* the queue after icmsg_send_wrapper(addr_or_msg_type, tx_block_index)
icmsg_send_wrapper(q, ok, addr_or_msg_type, tx_block_index) ==
  IF ok THEN Append(q, <<addr_or_msg_type, tx_block_index>>) ELSE q

LogAfterSend(s, ok) ==
  IF ok THEN log[s] ELSE [log[s] EXCEPT !.fails = @ - 1]

\* send_block: the header gets the final size, the message goes out, and a
\* failed send releases the blocks; [r, bm, mem, q, give]
send_block(bm, mem, q, ok, tx_block_index, size, remote_addr) ==
  LET mem1 == [mem EXCEPT ![tx_block_index].size = size]
      rel == release_tx_blocks(bm, mem1, tx_block_index, size, -1)
  IN IF ok
     THEN [r |-> 0, bm |-> bm, mem |-> mem1,
           q |-> icmsg_send_wrapper(q, ok, remote_addr, tx_block_index), give |-> FALSE]
     ELSE [r |-> LinkResult(ok), bm |-> rel.bm, mem |-> rel.mem, q |-> q,
           give |-> rel.give]

(***************************************************************************)
(* Endpoint names and bound messages.  A name is a sequence of non-zero    *)
(* bytes; the buffer of a bound message holds the sender's endpoint        *)
(* address followed by the zero-terminated name.                           *)
(***************************************************************************)
NameA == <<65>>
NameB == <<66>>
Names == {NameA, NameB}

\* byte k (from 0) of a byte sequence in memory; bytes never written read 0
ByteAt(bytes, k) == IF k < Len(bytes) THEN bytes[k + 1] ELSE 0

\* bytes of a buffer from offset k on
BytesFrom(bytes, k) == [j \in 1 .. (IF Len(bytes) > k THEN Len(bytes) - k ELSE 0) |-> bytes[j + k]]

\* strnlen(str, maxlen): the bytes before the first zero, at most maxlen
RECURSIVE strnlen_from(_, _, _)
strnlen_from(str, k, maxlen) ==
  IF k >= maxlen \/ ByteAt(str, k) = 0 THEN k ELSE strnlen_from(str, k + 1, maxlen)

strnlen(str, maxlen) == strnlen_from(str, 0, maxlen)

\* strncmp(a, b, n) == 0
strncmp_eq(a, b, n) ==
  \A k \in 0 .. (n - 1) :
    (\A j \in 0 .. (k - 1) : ByteAt(a, j) # 0) => ByteAt(a, k) = ByteAt(b, k)

\* the search without the comparison of the names
find_ept_first(E, count, mem, rx_block_index) == IF count > 0 THEN 0 ELSE -1

\* find_ept_by_name: index of the first registered endpoint whose name
\* matches the name stored in RX block rx_block_index, or -1
find_ept_by_name(E, count, mem, rx_block_index) ==
  LET name == BytesFrom(mem[rx_block_index].data, 1)
      room == BlockCount * BlockSize
                - (rx_block_index * BlockSize + BLOCK_HEADER_SIZE + 1) - 1
      name_size == strnlen(name, room) + 1
      hits == {i \in 0 .. (count - 1) : strncmp_eq(E[i].name, name, name_size)}
  IN IF hits = {} THEN -1 ELSE CHOOSE i \in hits : \A j \in hits : i <= j

\* the buffer with address 0 whatever the endpoint
BoundMsg_zero(local_addr, name) == <<0>> \o name \o <<0>>

\* the buffer send_bound_message fills: ept_addr, name, terminator
BoundMsg(local_addr, name) == <<local_addr>> \o name \o <<0>>

\* msg_len of send_bound_message
BoundMsgLen(name) == 1 + Len(name) + 1

(***************************************************************************)
(* ept_bound_process.  The handler holds the mutex except while it sends   *)
(* or calls the bound callback; each action below is one stretch under the *)
(* mutex, one send, or the callback.                                       *)
(***************************************************************************)
\* lines 678-702: from endpoint i on, up to the next unlock or the exit
RECURSIVE BoundLoop(_, _, _)
BoundLoop(s, i, E) ==
  IF i >= ept_count[s]
  THEN [pc |-> "exit", i |-> 0, ept |-> E]
  ELSE IF E[i].state = EPT_CONFIGURED
       THEN [pc |-> "bound_send", i |-> i,
             ept |-> [E EXCEPT ![i].state = EPT_BOUNDING]]
       ELSE IF E[i].state = EPT_BOUNDED /\ E[i].remote_addr # EPT_ADDR_INVALID
            THEN [pc |-> "cb", i |-> i, ept |-> [E EXCEPT ![i].state = EPT_READY]]
            ELSE BoundLoop(s, i + 1, E)

\* lines 665-676 with match_bound_msg up to its unlock: from slot i on
RECURSIVE WaitingLoop(_, _, _)
WaitingLoop(s, i, E) ==
  IF i >= NUM_EP
  THEN BoundLoop(s, 0, E)
  ELSE IF waiting_bound_msg[s][i] = WAITING_BOUND_MSG_EMPTY
       THEN WaitingLoop(s, i + 1, E)
       ELSE LET rx_block_index == waiting_bound_msg[s][i]
                e == find_ept_by_name(E, ept_count[s], shmem[Peer(s)], rx_block_index)
            IN IF e < 0
               THEN WaitingLoop(s, i + 1, E)
               ELSE [pc |-> "rel_send", i |-> i,
                     ept |-> [E EXCEPT ![e].remote_addr =
                                ByteAt(shmem[Peer(s)][rx_block_index].data, 0)]]

\* the exit without the submission of line 707
WorkAfter_once(s, res, r) ==
  IF res.pc = "exit"
  THEN [WorkIdle EXCEPT !.queued = work[s].queued]
  ELSE [work[s] EXCEPT !.pc = res.pc, !.i = res.i, !.r = r]

\* the handler's position after a stretch under the mutex; at the exit the
\* work item is submitted again when r < 0
WorkAfter(s, res, r) ==
  IF res.pc = "exit"
  THEN [WorkIdle EXCEPT !.queued = work[s].queued \/ r < 0]
  ELSE [work[s] EXCEPT !.pc = res.pc, !.i = res.i, !.r = r]

\* the work queue starts the handler: lines 658-663 and the first stretch
WorkerStart(s) ==
  /\ work[s].queued
  /\ work[s].pc = "idle"
  /\ LET res == IF icmsg_bounded[s]
                THEN WaitingLoop(s, 0, ept[s])
                ELSE [pc |-> "exit", i |-> 0, ept |-> ept[s]]
     IN /\ ept' = [ept EXCEPT ![s] = res.ept]
        /\ work' = [work EXCEPT ![s] =
                      IF res.pc = "exit" THEN WorkIdle
                      ELSE [WorkIdle EXCEPT !.pc = res.pc, !.i = res.i]]
  /\ UNCHANGED <<tx_usage_bitmap, shmem, block_wait_sem, ept_count,
                 waiting_bound_msg, icmsg_bounded, icmsg, thr, rxVars, log,
                 fifo, mutex, conf, ram>>

\* match_bound_msg line 600: send_release(buffer, MSG_RELEASE_BOUND)
WorkerRelSend(s) ==
  /\ work[s].pc = "rel_send"
  /\ \E ok \in LinkOutcomes(s) :
       /\ icmsg' = [icmsg EXCEPT ![s] =
                      icmsg_send_wrapper(@, ok, MSG_RELEASE_BOUND,
                                         waiting_bound_msg[s][work[s].i])]
       /\ work' = [work EXCEPT ![s].pc = "rel_done", ![s].r = LinkResult(ok)]
       /\ log' = [log EXCEPT ![s] = LogAfterSend(s, ok)]
  /\ UNCHANGED <<tx_usage_bitmap, shmem, block_wait_sem, ept, ept_count,
                 waiting_bound_msg, icmsg_bounded, thr, rxVars, fifo, mutex, conf, ram>>

\* match_bound_msg lines 601-607 and lines 669-676: the slot is cleared
\* whenever match_bound_msg returned non-zero
WorkerRelDone(s) ==
  /\ work[s].pc = "rel_done"
  /\ waiting_bound_msg' = [waiting_bound_msg EXCEPT ![s][work[s].i] =
                             WAITING_BOUND_MSG_EMPTY]
  /\ LET res == IF work[s].r < 0
                THEN [pc |-> "exit", i |-> 0, ept |-> ept[s]]
                ELSE WaitingLoop(s, work[s].i + 1, ept[s])
     IN /\ ept' = [ept EXCEPT ![s] = res.ept]
        /\ work' = [work EXCEPT ![s] = WorkAfter(s, res, work[s].r)]
  /\ UNCHANGED <<tx_usage_bitmap, shmem, block_wait_sem, ept_count, icmsg_bounded,
                 icmsg, thr, rxVars, log, fifo, mutex, conf, ram>>

\* send_bound_message: alloc_tx_buffer(msg_len, K_FOREVER) returns once the
\* blocks are free; the message is written and sent with send_block
send_bound_message_body(s) ==
  /\ work[s].pc = "bound_send"
  /\ LET e == ept[s][work[s].i]
         msg_len == BoundMsgLen(e.name)
         a == sys_bitarray_alloc(tx_usage_bitmap[s], NumBlocks(msg_len))
     IN /\ a.r # -ENOSPC
        /\ IF a.r < 0
           THEN /\ work' = [work EXCEPT ![s].pc = "bound_done", ![s].r = a.r]
                /\ UNCHANGED <<tx_usage_bitmap, shmem, block_wait_sem, icmsg, log>>
           ELSE \E ok \in LinkOutcomes(s) :
                  LET mem1 == [shmem[s] EXCEPT ![a.offset] =
                                 [size |-> GrantedSize(NumBlocks(msg_len)),
                                  data |-> BoundMsg(work[s].i, e.name)]]
                      sb == send_block(a.bm, mem1, icmsg[s], ok, a.offset, msg_len,
                                       MSG_BOUND)
                  IN /\ icmsg' = [icmsg EXCEPT ![s] = sb.q]
                     /\ shmem' = [shmem EXCEPT ![s] = sb.mem]
                     /\ tx_usage_bitmap' = [tx_usage_bitmap EXCEPT ![s] = sb.bm]
                     /\ block_wait_sem' = [block_wait_sem EXCEPT ![s] =
                                             IF sb.give THEN k_sem_give(@) ELSE @]
                     /\ work' = [work EXCEPT ![s].pc = "bound_done", ![s].r = sb.r]
                     /\ log' = [log EXCEPT ![s] = LogAfterSend(s, ok)]
  /\ UNCHANGED <<ept, ept_count, waiting_bound_msg, icmsg_bounded, thr, rxVars,
                 fifo, mutex, conf>>

\* send_bound_message where the backing memory of the blocks is not looked at
send_bound_message(s) == send_bound_message_body(s) /\ UNCHANGED ram

\* lines 685-689, then the loop goes on
WorkerBoundDone(s) ==
  /\ work[s].pc = "bound_done"
  /\ LET res == IF work[s].r < 0
                THEN [pc |-> "exit", i |-> 0,
                      ept |-> [ept[s] EXCEPT ![work[s].i].state = EPT_UNCONFIGURED]]
                ELSE BoundLoop(s, work[s].i + 1, ept[s])
     IN /\ ept' = [ept EXCEPT ![s] = res.ept]
        /\ work' = [work EXCEPT ![s] = WorkAfter(s, res, work[s].r)]
  /\ UNCHANGED <<tx_usage_bitmap, shmem, block_wait_sem, ept_count, waiting_bound_msg,
                 icmsg_bounded, icmsg, thr, rxVars, log, fifo, mutex, conf, ram>>

\* lines 696-700: the bound callback of endpoint i, then the loop goes on
WorkerCb(s) ==
  /\ work[s].pc = "cb"
  /\ log' = [log EXCEPT ![s].bound_cb[work[s].i] = @ + 1]
  /\ LET res == BoundLoop(s, work[s].i + 1, ept[s])
     IN /\ ept' = [ept EXCEPT ![s] = res.ept]
        /\ work' = [work EXCEPT ![s] = WorkAfter(s, res, 0)]
  /\ UNCHANGED <<tx_usage_bitmap, shmem, block_wait_sem, ept_count, waiting_bound_msg,
                 icmsg_bounded, icmsg, thr, rxVars, fifo, mutex, conf, ram>>

\* k_work_submit: a submission while the handler runs is kept for a new run
schedule_dropped(w) == w

\* the caller runs ept_bound_process itself instead of submitting it
schedule_inline(w) == IF w.pc = "idle" THEN [w EXCEPT !.pc = "bound_send"] ELSE w

schedule_ept_bound_process(w) == [w EXCEPT !.queued = TRUE]

\* bound: ICMsg reports the link ready
IcmsgBound(s) ==
  /\ ~icmsg_bounded[s]
  /\ icmsg_bounded' = [icmsg_bounded EXCEPT ![s] = TRUE]
  /\ work' = [work EXCEPT ![s] = schedule_ept_bound_process(@)]
  /\ UNCHANGED <<tx_usage_bitmap, shmem, block_wait_sem, ept, ept_count,
                 waiting_bound_msg, icmsg, thr, rxVars, log, fifo, mutex, conf, ram>>

\* names registered so far on side s
Registered(s) == {ept[s][i].name : i \in 0 .. (ept_count[s] - 1)}

\* line 978: the table has a free entry
HasRoom_always(count) == TRUE
HasRoom(count) == count < NUM_EP

\* register_ept: the application registers each of its names once
register_ept(s, name) ==
  /\ name \notin Registered(s)
  /\ IF HasRoom(ept_count[s])
     THEN /\ ept' = [ept EXCEPT ![s][ept_count[s]] =
                       [name |-> name, remote_addr |-> EPT_ADDR_INVALID,
                        state |-> EPT_CONFIGURED]]
          /\ ept_count' = [ept_count EXCEPT ![s] = @ + 1]
          /\ log' = [log EXCEPT ![s].reg =
                       [name |-> name, r |-> 0, token |-> ept_count[s]]]
     ELSE /\ UNCHANGED <<ept, ept_count>>
          /\ log' = [log EXCEPT ![s].reg = [name |-> name, r |-> -ENOMEM, token |-> -1]]
  /\ work' = [work EXCEPT ![s] = schedule_ept_bound_process(@)]
  /\ UNCHANGED <<tx_usage_bitmap, shmem, block_wait_sem, waiting_bound_msg,
                 icmsg_bounded, icmsg, thr, rxVars, fifo, mutex, conf, ram>>

(***************************************************************************)
(* received: ICMsg hands the next message of the peer to the handler.      *)
(* shmem[Peer(s)] is the RX region of side s.  A RELEASE_BOUND message may *)
(* be handed over once more while the side's budget log.dups lasts.        *)
(***************************************************************************)
Incoming(s) == icmsg_bounded[s] /\ rxh[s].pc = "idle" /\ icmsg[Peer(s)] # <<>>

\* received, line 860: the message has two bytes
CanReceive(s) == Incoming(s) /\ Len(Head(icmsg[Peer(s)])) = 2

\* received, lines 860-863: a message of another length is dropped
received_invalid(s) ==
  /\ Incoming(s)
  /\ Len(Head(icmsg[Peer(s)])) # 2
  /\ icmsg' = [icmsg EXCEPT ![Peer(s)] = Tail(@)]
  /\ UNCHANGED <<tx_usage_bitmap, shmem, block_wait_sem, eptVars, thr, rxVars, log,
                 fifo, mutex, conf, ram>>

\* the search that takes entry 0 when none is empty
FirstEmptySlot_overwrite(w) ==
  LET free == {i \in 0 .. (NUM_EP - 1) : w[i] = WAITING_BOUND_MSG_EMPTY}
  IN IF free = {} THEN 0 ELSE CHOOSE i \in free : \A j \in free : i <= j

\* the search over a waiting list of one entry
FirstEmptySlot_one(w) == IF w[0] = WAITING_BOUND_MSG_EMPTY THEN 0 ELSE -1

\* first empty entry of the waiting list, or -1
FirstEmptySlot(w) ==
  LET free == {i \in 0 .. (NUM_EP - 1) : w[i] = WAITING_BOUND_MSG_EMPTY}
  IN IF free = {} THEN -1 ELSE CHOOSE i \in free : \A j \in free : i <= j

received_bound(s) ==
  /\ CanReceive(s)
  /\ Head(icmsg[Peer(s)])[1] = MSG_BOUND
  /\ icmsg' = [icmsg EXCEPT ![Peer(s)] = Tail(@)]
  /\ LET rx_block_index == Head(icmsg[Peer(s)])[2]
         slot == FirstEmptySlot(waiting_bound_msg[s])
     IN IF ~ValidBlock(shmem[Peer(s)], rx_block_index)
        THEN /\ log' = [log EXCEPT ![s].rx = -EINVAL]
             /\ UNCHANGED <<waiting_bound_msg, work>>
        ELSE /\ waiting_bound_msg' =
                  IF slot < 0 THEN waiting_bound_msg
                  ELSE [waiting_bound_msg EXCEPT ![s][slot] = rx_block_index]
             /\ work' = [work EXCEPT ![s] = schedule_ept_bound_process(@)]
             /\ log' = [log EXCEPT ![s].rx = IF slot < 0 THEN -ENOMEM ELSE 0]
  /\ UNCHANGED <<tx_usage_bitmap, shmem, block_wait_sem, ept, ept_count,
                 icmsg_bounded, thr, rxVars, fifo, mutex, conf, ram>>

DupOutcomes(s) == IF log[s].dups > 0 THEN {FALSE, TRUE} ELSE {FALSE}

\* line 824: msg->ept_addr of the BOUND message in the TX block
BoundAddr_index(mem, tx_block_index) == tx_block_index
BoundAddr(mem, tx_block_index) == ByteAt(mem[tx_block_index].data, 0)

received_release_bound(s) ==
  /\ CanReceive(s)
  /\ Head(icmsg[Peer(s)])[1] = MSG_RELEASE_BOUND
  /\ \E dup \in DupOutcomes(s) :
       /\ icmsg' = [icmsg EXCEPT ![Peer(s)] = IF dup THEN @ ELSE Tail(@)]
       /\ log' = [log EXCEPT ![s].dups = IF dup THEN @ - 1 ELSE @]
  /\ LET tx_block_index == Head(icmsg[Peer(s)])[2]
     IN IF ~ValidBlock(shmem[s], tx_block_index)
        THEN UNCHANGED <<tx_usage_bitmap, shmem, block_wait_sem, ept, work>>
        ELSE LET local_addr == BoundAddr(shmem[s], tx_block_index)
                 rel == release_tx_blocks(tx_usage_bitmap[s], shmem[s], tx_block_index,
                                          shmem[s][tx_block_index].size, -1)
             IN /\ tx_usage_bitmap' = [tx_usage_bitmap EXCEPT ![s] = rel.bm]
                /\ shmem' = [shmem EXCEPT ![s] = rel.mem]
                /\ block_wait_sem' = [block_wait_sem EXCEPT ![s] =
                                        IF rel.give THEN k_sem_give(@) ELSE @]
                /\ IF local_addr >= ept_count[s]
                   THEN UNCHANGED <<ept, work>>
                   ELSE /\ ept' = [ept EXCEPT ![s][local_addr].state = EPT_BOUNDED]
                        /\ work' = [work EXCEPT ![s] = schedule_ept_bound_process(@)]
  /\ UNCHANGED <<ept_count, waiting_bound_msg, icmsg_bounded, thr, rxVars,
                 fifo, mutex, conf, ram>>

(***************************************************************************)
(* SpecBond: both sides register their endpoints and bond them over a      *)
(* link that neither fails nor repeats.  SpecBondFail gives each side a    *)
(* budget of failing sends, SpecBondDup a budget of repeated RELEASE_BOUND *)
(* deliveries.                                                             *)
(***************************************************************************)
FailBudget == 1
DupBudget == 1
BadBudget == 1

InitBond == InitBackend

\* the sends of side 0 may fail
InitBondFail ==
  /\ InitDevice /\ fifo = FifoInit(0) /\ mutex = MutexInit /\ conf = NoConf /\ ram = NoRam
  /\ log = [s \in Sides |-> [LogEmpty EXCEPT !.fails = IF s = 0 THEN FailBudget ELSE 0]]

\* the messages for side 0 may be repeated
InitBondDup ==
  /\ InitDevice /\ fifo = FifoInit(0) /\ mutex = MutexInit /\ conf = NoConf /\ ram = NoRam
  /\ log = [s \in Sides |-> [LogEmpty EXCEPT !.dups = IF s = 0 THEN DupBudget ELSE 0]]

Worker(s) ==
  \/ WorkerStart(s)
  \/ WorkerRelSend(s)
  \/ WorkerRelDone(s)
  \/ send_bound_message(s)
  \/ WorkerBoundDone(s)
  \/ WorkerCb(s)

ReceivedBonding(s) == received_bound(s) \/ received_release_bound(s)

NextBond ==
  \E s \in Sides :
    \/ IcmsgBound(s)
    \/ \E name \in Names : register_ept(s, name)
    \/ Worker(s)
    \/ ReceivedBonding(s)

SpecBond == InitBond /\ [][NextBond]_vars
SpecBondFail == InitBondFail /\ [][NextBond]_vars
SpecBondDup == InitBondDup /\ [][NextBond]_vars

\* SpecPrefix: bonding of two endpoints of which one's name is a prefix of
\* the other's; the BOUND message of the longer name takes two blocks
LongName == [k \in 1 .. (BlockSize - BLOCK_HEADER_SIZE) |-> 65]

PrefixNames == {NameA, LongName}

NextPrefix ==
  \E s \in Sides :
    \/ IcmsgBound(s)
    \/ \E name \in PrefixNames : register_ept(s, name)
    \/ Worker(s)
    \/ ReceivedBonding(s)

SpecPrefix == InitBond /\ [][NextPrefix]_vars

\* SpecRegister: the application of side 0 has more endpoints than the table
\* has entries; it registers the further ones after "A" and "B"
MoreNames == {<<67>>, <<68>>}

RegisterMore(s) ==
  \E name \in MoreNames :
    ept_count[s] >= Cardinality(Names) /\ register_ept(s, name)

NextRegister == NextBond \/ RegisterMore(0)

SpecRegister == InitBond /\ [][NextRegister]_vars

\* the hypotheses of bonding: the applications register their endpoints,
\* ICMsg reports the link ready and delivers every message, the system work
\* queue runs every submitted work item.  Weak fairness of the whole next-state
\* action is implied by fairness of each of these.
FairBond == WF_vars(NextBond)

SpecBondLive == SpecBond /\ FairBond

(***************************************************************************)
(* Properties of the allocator (SpecAlloc)                                 *)
(***************************************************************************)
\* blocks a buffer of the given size occupies: ceil((size + header) / block_size)
BlocksNeeded(size) == (size + BLOCK_HEADER_SIZE + BlockSize - 1) \div BlockSize

\* blocks of the thread's allocation: the buffer it was returned, or the
\* bits an allocation in progress has reserved so far
LiveBlocks(s, t) ==
  LET rec == thr[s][t]
  IN IF rec.pc = "extend" THEN rec.idx .. (rec.next_bit - 1)
     ELSE IF rec.pc = "give" /\ rec.r >= 0 THEN rec.idx .. (rec.idx + rec.n - 1)
     ELSE IF rec.buf = NoBuf THEN {}
     ELSE rec.buf.idx .. (rec.buf.idx + BlocksNeeded(rec.buf.size) - 1)

RECURSIVE SumLive(_, _)
SumLive(s, T) ==
  IF T = {} THEN 0
  ELSE LET t == CHOOSE x \in T : TRUE
       IN Cardinality(LiveBlocks(s, t)) + SumLive(s, T \ {t})

\* C1: no TX block belongs to two live allocations, and the number of bits
\* set in the TX usage bitmap equals the number of blocks held by live
\* allocations, in every interleaving of allocate, partial and full release.
C1_MutualExclusion ==
  /\ \A t1, t2 \in Threads : t1 # t2 => LiveBlocks(0, t1) \cap LiveBlocks(0, t2) = {}
  /\ PopCount(tx_usage_bitmap[0]) = SumLive(0, Threads)

\* both threads hold a buffer, one shrunk by a partial release, the other a
\* multi-block grant
C1_Witness ==
  \E t1, t2 \in Threads :
    /\ t1 # t2
    /\ thr[0][t1].pc = "idle" /\ thr[0][t1].op = "shrink" /\ thr[0][t1].r >= 0
    /\ thr[0][t1].buf # NoBuf
    /\ thr[0][t2].pc = "idle" /\ thr[0][t2].op = "alloc"
    /\ thr[0][t2].buf # NoBuf /\ BlocksNeeded(thr[0][t2].buf.size) = 2

\* a step in which thread t returns from alloc_tx_buffer
AllocReturns(t) ==
  /\ thr[0][t].pc \in {"try", "wait", "give", "extend"}
  /\ thr'[0][t].pc = "idle"

\* the statuses C9 gives a failed request, read on the step that returns
AllocFailureStatus(t) ==
  LET rec == thr[0][t]
      r == thr'[0][t].r
  IN /\ BlocksNeeded(rec.size) > BlockCount => r = -EINVAL /\ ~rec.waited
     /\ (BlocksNeeded(rec.size) <= BlockCount /\ r < 0) =>
          \/ rec.timeout = "K_NO_WAIT" /\ r = -ENOSPC
          \/ rec.timeout = "K_MSEC" /\ r = -EAGAIN
     /\ r < 0 => tx_usage_bitmap' = tx_usage_bitmap

\* C9: a request needing more blocks than the TX block count returns -EINVAL
\* without waiting, for every timeout; a request that fits but finds no free
\* run returns -ENOSPC with K_NO_WAIT and -EAGAIN when a bounded wait
\* expires; a failed request leaves the TX bitmap unchanged.
C9_AllocFailures ==
  [][\A t \in Threads : AllocReturns(t) => AllocFailureStatus(t)]_vars

\* the same statement for the requests whose size plus header does not wrap
C9_AllocFailuresNoWrap ==
  [][\A t \in Threads :
       (AllocReturns(t) /\ thr[0][t].size + BLOCK_HEADER_SIZE < SIZE_MOD)
         => AllocFailureStatus(t)]_vars

\* a step in which thread t calls release_tx_buffer with new_size >= 0
ShrinkStep(t) ==
  /\ thr[0][t].pc = "idle"
  /\ thr[0][t].buf # NoBuf
  /\ thr'[0][t] # thr[0][t]
  /\ thr'[0][t].op = "shrink"

\* C10: release with new_size >= 0 never increases the blocks the buffer
\* occupies; when new_size needs more blocks than the buffer occupies it
\* returns -EINVAL and changes neither the TX bitmap nor the header size;
\* otherwise it stores new_size in the header and frees exactly the trailing
\* blocks no longer needed, the leading blocks staying reserved.
C10_PartialRelease ==
  [][\A t \in Threads :
       ShrinkStep(t) =>
         LET idx == thr[0][t].buf.idx
             held == BlocksNeeded(thr[0][t].buf.size)
             new_size == thr'[0][t].size
             need == BlocksNeeded(new_size)
         IN IF need > held
            THEN /\ thr'[0][t].r = -EINVAL
                 /\ tx_usage_bitmap' = tx_usage_bitmap
                 /\ shmem'[0][idx].size = shmem[0][idx].size
            ELSE /\ thr'[0][t].r = idx
                 /\ shmem'[0][idx].size = new_size
                 /\ \A b \in Blocks :
                      tx_usage_bitmap'[0][b] =
                        IF b >= idx + need /\ b < idx + held
                        THEN FALSE
                        ELSE tx_usage_bitmap[0][b]
                 /\ \A b \in idx .. (idx + need - 1) : tx_usage_bitmap'[0][b]]_vars

\* a three-block buffer was shrunk to one block while the other thread holds
\* the block behind it, and a shrink asking for more blocks was refused
C10_Witness ==
  \E t1, t2 \in Threads :
    /\ t1 # t2
    /\ thr[0][t1].op = "shrink" /\ thr[0][t1].r >= 0 /\ thr[0][t1].size = 0
    /\ thr[0][t1].buf.idx = 0
    /\ tx_usage_bitmap[0][0] /\ ~tx_usage_bitmap[0][2]
    /\ thr[0][t2].op = "shrink" /\ thr[0][t2].r = -EINVAL
    /\ thr[0][t2].buf.idx = 1

\* a wrapped request was granted a block, and a bounded wait expired
C9_Witness ==
  \E t1, t2 \in Threads :
    /\ t1 # t2
    /\ thr[0][t1].pc = "idle" /\ thr[0][t1].op = "alloc" /\ thr[0][t1].r = -EAGAIN
    /\ thr[0][t2].pc = "idle" /\ thr[0][t2].op = "alloc" /\ thr[0][t2].r >= 0

(***************************************************************************)
(* Data transfer.  The application calls send, get_tx_buffer, send_nocopy  *)
(* and drop_tx_buffer; each call is one action, and a blocking allocation  *)
(* is taken when its blocks are free.                                      *)
(***************************************************************************)
MaxOps == 2

Max(a, b) == IF a < b THEN b ELSE a

\* the payload the application sends: len bytes, marked with the length
Payload(len) == [k \in 1 .. len |-> 16 * len + k]

MsgLens == {0, 1, BlockSize - BLOCK_HEADER_SIZE + 1}
GetSizes == {0, BlockSize - BLOCK_HEADER_SIZE + 1}

\* memcpy(buffer, msg, len) on the bytes of a buffer
memcpy(data, msg, len) ==
  [k \in 1 .. Max(Len(data), len) |-> IF k <= len THEN msg[k] ELSE data[k]]

\* the size bytes the receive callback is given
ReadBuffer(mem, index) ==
  [k \in 1 .. mem[index].size |-> ByteAt(mem[index].data, k - 1)]

\* lines 345-358: the blocks taken after tx_block_index by the size-0 form
ExtendRun(bm, tx_block_index) ==
  LET stops == {b \in (tx_block_index + 1) .. BlockCount : b = BlockCount \/ bm[b]}
  IN (CHOOSE b \in stops : \A c \in stops : b <= c) - tx_block_index

\* alloc_tx_buffer when it does not wait: [r, bm, mem, size]
alloc_tx_buffer(bm, mem, size) ==
  LET a == sys_bitarray_alloc(bm, NumBlocks(size))
      num_blocks == IF size = 0 THEN ExtendRun(a.bm, a.offset) ELSE NumBlocks(size)
  IN IF a.r < 0
     THEN [r |-> a.r, bm |-> bm, mem |-> mem, size |-> size]
     ELSE [r |-> a.offset,
           bm |-> [b \in Blocks |->
                     a.bm[b] \/ (b >= a.offset /\ b < a.offset + num_blocks)],
           mem |-> [mem EXCEPT ![a.offset].size = GrantedSize(num_blocks)],
           size |-> GrantedSize(num_blocks)]

\* the address a data message is sent to: ept->remote_addr
DataAddr_local(s, e) == e
DataAddr(s, e) == ept[s][e].remote_addr

\* no message under way between the sides and nothing held
Quiet ==
  \A s \in Sides :
    /\ icmsg[s] = <<>>
    /\ rxh[s].pc = "idle" /\ rxh[s].bufs = {}
    /\ \A t \in Threads : thr[s][t].pc = "idle"

\* the history after a call of the application on side s: a successful data
\* send is recorded, and the bitmap before a send made in a quiet state
LogAfterCall(s, ok, sent, snap) ==
  [LogAfterSend(s, ok) EXCEPT
     !.ops = @ + 1,
     !.sent = IF sent = <<>> THEN @ ELSE Append(@, sent[1]),
     !.snap = snap]

\* send: alloc_tx_buffer(len, K_FOREVER), memcpy, send_block
send_body(s, t, e, len) ==
  /\ thr[s][t].pc = "idle"
  /\ log[s].ops < MaxOps
  /\ LET msg == Payload(len)
         a == alloc_tx_buffer(tx_usage_bitmap[s], shmem[s], len)
     IN /\ a.r # -ENOSPC
        /\ IF a.r < 0
           THEN /\ thr' = [thr EXCEPT ![s][t].op = "send", ![s][t].size = len,
                                      ![s][t].r = a.r]
                /\ log' = [log EXCEPT ![s] = LogAfterCall(s, TRUE, <<>>, NoSnap)]
                /\ UNCHANGED <<tx_usage_bitmap, shmem, block_wait_sem, icmsg>>
           ELSE \E ok \in LinkOutcomes(s) :
                  LET mem1 == [a.mem EXCEPT ![a.r].data = memcpy(@, msg, len)]
                      sb == send_block(a.bm, mem1, icmsg[s], ok, a.r, len, DataAddr(s, e))
                  IN /\ icmsg' = [icmsg EXCEPT ![s] = sb.q]
                     /\ shmem' = [shmem EXCEPT ![s] = sb.mem]
                     /\ tx_usage_bitmap' = [tx_usage_bitmap EXCEPT ![s] = sb.bm]
                     /\ block_wait_sem' = [block_wait_sem EXCEPT ![s] =
                                             IF sb.give THEN k_sem_give(@) ELSE @]
                     /\ thr' = [thr EXCEPT ![s][t].op = "send", ![s][t].size = len,
                                           ![s][t].r = sb.r]
                     /\ log' = [log EXCEPT ![s] =
                                  LogAfterCall(s, ok,
                                    IF ok THEN <<[name |-> ept[s][e].name, len |-> len,
                                                  data |-> msg]>>
                                    ELSE <<>>,
                                    IF ok /\ Quiet
                                    THEN [on |-> TRUE, bm |-> tx_usage_bitmap[s]]
                                    ELSE NoSnap)]
  /\ UNCHANGED <<eptVars, rxVars, fifo, mutex, conf>>

\* send where the backing memory of the blocks is not looked at
send(s, t, e, len) == send_body(s, t, e, len) /\ UNCHANGED ram

\* get_tx_buffer(user_len, K_NO_WAIT)
get_tx_buffer(s, t, size) ==
  /\ thr[s][t].pc = "idle"
  /\ thr[s][t].buf = NoBuf
  /\ log[s].ops < MaxOps
  /\ LET a == alloc_tx_buffer(tx_usage_bitmap[s], shmem[s], size)
     IN /\ tx_usage_bitmap' = [tx_usage_bitmap EXCEPT ![s] = a.bm]
        /\ shmem' = [shmem EXCEPT ![s] = a.mem]
        /\ thr' = [thr EXCEPT ![s][t].op = "get", ![s][t].r = Min(a.r, 0),
                              ![s][t].buf = IF a.r < 0 THEN NoBuf
                                            ELSE [idx |-> a.r, size |-> a.size]]
  /\ log' = [log EXCEPT ![s] = LogAfterCall(s, TRUE, <<>>, NoSnap)]
  /\ UNCHANGED <<block_wait_sem, eptVars, rxVars, icmsg, fifo, mutex, conf, ram>>

\* drop_tx_buffer on the buffer got from get_tx_buffer
drop_tx_buffer(s, t) ==
  /\ thr[s][t].pc = "idle"
  /\ thr[s][t].buf # NoBuf
  /\ LET rel == release_tx_buffer(tx_usage_bitmap[s], shmem[s], thr[s][t].buf.idx, -1)
     IN /\ tx_usage_bitmap' = [tx_usage_bitmap EXCEPT ![s] = rel.bm]
        /\ shmem' = [shmem EXCEPT ![s] = rel.mem]
        /\ block_wait_sem' = [block_wait_sem EXCEPT ![s] =
                                IF rel.give THEN k_sem_give(@) ELSE @]
        /\ thr' = [thr EXCEPT ![s][t].op = "drop", ![s][t].r = rel.r,
                              ![s][t].buf = NoBuf]
  /\ log' = [log EXCEPT ![s].snap = NoSnap]
  /\ UNCHANGED <<eptVars, rxVars, icmsg, fifo, mutex, conf, ram>>

\* the application fills the buffer it got with len bytes (as many as it
\* has room for) and calls send_nocopy(data, len): release_tx_buffer(data,
\* len) with len converted to int, on an error the full release, else send_block
send_nocopy_body(s, t, e, len) ==
  /\ thr[s][t].pc = "idle"
  /\ thr[s][t].buf # NoBuf
  /\ \E ok \in LinkOutcomes(s) :
       LET msg == Payload(len)
           idx == thr[s][t].buf.idx
           mem1 == [shmem[s] EXCEPT ![idx].data =
                      memcpy(@, msg, Min(len, thr[s][t].buf.size))]
           shr == release_tx_buffer(tx_usage_bitmap[s], mem1, idx, ToInt(len))
           all == release_tx_buffer(shr.bm, shr.mem, idx, -1)
           sb == send_block(shr.bm, shr.mem, icmsg[s], ok, shr.r, len, DataAddr(s, e))
           res == IF shr.r < 0
                  THEN [r |-> shr.r, bm |-> all.bm, mem |-> all.mem, q |-> icmsg[s],
                        give |-> shr.give \/ all.give]
                  ELSE [sb EXCEPT !.give = shr.give \/ sb.give]
       IN /\ shr.r < 0 => ok
          /\ icmsg' = [icmsg EXCEPT ![s] = res.q]
          /\ shmem' = [shmem EXCEPT ![s] = res.mem]
          /\ tx_usage_bitmap' = [tx_usage_bitmap EXCEPT ![s] = res.bm]
          /\ block_wait_sem' = [block_wait_sem EXCEPT ![s] =
                                  IF res.give THEN k_sem_give(@) ELSE @]
          /\ thr' = [thr EXCEPT ![s][t].op = "nocopy", ![s][t].size = len,
                                ![s][t].r = res.r, ![s][t].buf = NoBuf]
          /\ log' = [log EXCEPT ![s] =
                       [LogAfterCall(s, ok \/ shr.r < 0,
                          IF ok /\ shr.r >= 0
                          THEN <<[name |-> ept[s][e].name, len |-> len, data |-> msg]>>
                          ELSE <<>>,
                          NoSnap) EXCEPT !.ops = log[s].ops]]
  /\ UNCHANGED <<eptVars, rxVars, fifo, mutex, conf>>

\* send_nocopy where the backing memory of the blocks is not looked at
send_nocopy(s, t, e, len) == send_nocopy_body(s, t, e, len) /\ UNCHANGED ram

\* sys_bitarray_clear_bit / sys_bitarray_set_bit on the hold bitmap
clear_bit_keep(bm, index) == bm
clear_bit(bm, index) == [bm EXCEPT ![index] = FALSE]
set_bit(bm, index) == [bm EXCEPT ![index] = TRUE]

\* received_data lines 725-734: validation, then the hold bit is cleared
received_data(s) ==
  /\ CanReceive(s)
  /\ Head(icmsg[Peer(s)])[1] \notin {MSG_RELEASE_BOUND, MSG_RELEASE_DATA, MSG_BOUND}
  /\ icmsg' = [icmsg EXCEPT ![Peer(s)] = Tail(@)]
  /\ LET local_addr == Head(icmsg[Peer(s)])[1]
         rx_block_index == Head(icmsg[Peer(s)])[2]
     IN IF ~ValidBlock(shmem[Peer(s)], rx_block_index) \/ local_addr >= ept_count[s]
        THEN UNCHANGED rxVars
        ELSE /\ rx_hold_bitmap' = [rx_hold_bitmap EXCEPT ![s] =
                                     clear_bit(@, rx_block_index)]
             /\ rxh' = [rxh EXCEPT ![s].pc = "cb", ![s].idx = rx_block_index,
                                   ![s].addr = local_addr,
                                   ![s].stale = rx_hold_bitmap[s][rx_block_index]]
  /\ UNCHANGED <<tx_usage_bitmap, shmem, block_wait_sem, eptVars, thr, log,
                 fifo, mutex, conf, ram>>

\* received_data lines 736-738: the receive callback of the endpoint; it may
\* call hold_rx_buffer on the buffer it is given
ReceivedCallback(s) ==
  /\ rxh[s].pc = "cb"
  /\ \E hold \in BOOLEAN :
       /\ rx_hold_bitmap' = [rx_hold_bitmap EXCEPT ![s] =
                               IF hold THEN set_bit(@, rxh[s].idx) ELSE @]
       /\ rxh' = [rxh EXCEPT ![s].pc = "after", ![s].held = hold,
                             ![s].bufs = IF hold THEN @ \cup {rxh[s].idx} ELSE @]
       /\ log' = [log EXCEPT
                    ![s].last = [name |-> ept[s][rxh[s].addr].name,
                                 len |-> shmem[Peer(s)][rxh[s].idx].size,
                                 data |-> ReadBuffer(shmem[Peer(s)], rxh[s].idx)],
                    ![s].expect = IF log[Peer(s)].sent = <<>> THEN Unexpected
                                  ELSE Head(log[Peer(s)].sent),
                    ![s].got = 1,
                    ![Peer(s)].sent = IF @ = <<>> THEN @ ELSE Tail(@),
                    ![Peer(s)].snap = IF hold THEN NoSnap ELSE @]
  /\ UNCHANGED <<tx_usage_bitmap, shmem, block_wait_sem, eptVars, icmsg, thr,
                 fifo, mutex, conf, ram>>

\* received_data lines 740-746: the release is requested when the hold bit
\* is still clear; the result of the send is not looked at
ReceivedDataDone(s) ==
  /\ rxh[s].pc = "after"
  /\ \E ok \in LinkOutcomes(s) :
       /\ rx_hold_bitmap[s][rxh[s].idx] => ok
       /\ icmsg' = [icmsg EXCEPT ![s] =
                      IF rx_hold_bitmap[s][rxh[s].idx] THEN @
                      ELSE icmsg_send_wrapper(@, ok, MSG_RELEASE_DATA, rxh[s].idx)]
       /\ log' = [log EXCEPT ![s] = LogAfterSend(s, ok)]
  /\ rxh' = [rxh EXCEPT ![s].pc = "idle"]
  /\ UNCHANGED <<tx_usage_bitmap, rx_hold_bitmap, shmem, block_wait_sem, eptVars, thr,
                 fifo, mutex, conf, ram>>

\* release_rx_buffer on a buffer the application holds
release_rx_buffer(s, index) ==
  /\ index \in rxh[s].bufs
  /\ \E ok \in LinkOutcomes(s) :
       /\ icmsg' = [icmsg EXCEPT ![s] =
                      IF index < BlockCount
                      THEN icmsg_send_wrapper(@, ok, MSG_RELEASE_DATA, index) ELSE @]
       /\ log' = [log EXCEPT ![s] = LogAfterSend(s, ok)]
       /\ rxh' = [rxh EXCEPT ![s].bufs = IF ok THEN @ \ {index} ELSE @]
  /\ UNCHANGED <<tx_usage_bitmap, rx_hold_bitmap, shmem, block_wait_sem, eptVars, thr,
                 fifo, mutex, conf, ram>>

\* received_release_data
received_release_data(s) ==
  /\ CanReceive(s)
  /\ Head(icmsg[Peer(s)])[1] = MSG_RELEASE_DATA
  /\ icmsg' = [icmsg EXCEPT ![Peer(s)] = Tail(@)]
  /\ LET tx_block_index == Head(icmsg[Peer(s)])[2]
         rel == release_tx_buffer(tx_usage_bitmap[s], shmem[s], tx_block_index, -1)
     IN /\ tx_usage_bitmap' = [tx_usage_bitmap EXCEPT ![s] = rel.bm]
        /\ shmem' = [shmem EXCEPT ![s] = rel.mem]
        /\ block_wait_sem' = [block_wait_sem EXCEPT ![s] =
                                IF rel.give THEN k_sem_give(@) ELSE @]
  /\ log' = [log EXCEPT ![s].snap = NoSnap]
  /\ UNCHANGED <<eptVars, rxVars, thr, fifo, mutex, conf, ram>>

(***************************************************************************)
(* SpecData: data transfer between two bonded sides.  It starts where      *)
(* bonding ends: both sides have registered "A" and "B", in either order,  *)
(* and all four endpoints are READY.  The sends of side 0 may fail.        *)
(***************************************************************************)
Orders == {<<NameA, NameB>>, <<NameB, NameA>>}

\* index of name in an order of registration
AddrIn(order, name) == (CHOOSE k \in 1 .. Len(order) : order[k] = name) - 1

\* side 0 registered in order o0, side 1 in o1, each BOUND message went out
\* in a block of its own and was released
Bonded(o0, o1) ==
  LET o == [s \in Sides |-> IF s = 0 THEN o0 ELSE o1]
  IN /\ tx_usage_bitmap = [s \in Sides |-> [b \in Blocks |-> FALSE]]
     /\ rx_hold_bitmap = [s \in Sides |-> [b \in Blocks |-> FALSE]]
     /\ shmem = [s \in Sides |-> [b \in Blocks |->
                   IF b < Len(o[s])
                   THEN [size |-> BoundMsgLen(o[s][b + 1]),
                         data |-> BoundMsg(b, o[s][b + 1])]
                   ELSE [size |-> 0, data |-> <<>>]]]
     /\ block_wait_sem = [s \in Sides |-> 1]
     /\ ept = [s \in Sides |-> [e \in 0 .. (NUM_EP - 1) |->
                 IF e < Len(o[s])
                 THEN [name |-> o[s][e + 1],
                       remote_addr |-> AddrIn(o[Peer(s)], o[s][e + 1]),
                       state |-> EPT_READY]
                 ELSE EptEmpty]]
     /\ ept_count = [s \in Sides |-> Len(o[s])]
     /\ waiting_bound_msg = [s \in Sides |->
                               [e \in 0 .. (NUM_EP - 1) |-> WAITING_BOUND_MSG_EMPTY]]
     /\ icmsg_bounded = [s \in Sides |-> TRUE]
     /\ work = [s \in Sides |-> WorkIdle]
     /\ icmsg = [s \in Sides |-> <<>>]
     /\ thr = [s \in Sides |-> [t \in Threads |-> ThrIdle]]
     /\ rxh = [s \in Sides |-> RxIdle]
     /\ fifo = FifoInit(0) /\ mutex = MutexInit /\ conf = NoConf /\ ram = NoRam
     /\ log = [s \in Sides |->
                 [LogEmpty EXCEPT
                    !.bound_cb = [e \in 0 .. (NUM_EP - 1) |->
                                    IF e < Len(o[s]) THEN 1 ELSE 0],
                    !.reg = [name |-> o[s][Len(o[s])], r |-> 0, token |-> Len(o[s]) - 1],
                    !.fails = IF s = 0 THEN FailBudget ELSE 0,
                    !.bad = IF s = 0 THEN BadBudget ELSE 0]]

InitData == \E o0 \in Orders : \E o1 \in Orders : Bonded(o0, o1)

\* the sides registered in opposite orders, so that the addresses differ
InitCorrupt == Bonded(<<NameA, NameB>>, <<NameB, NameA>>)

\* the application of side 0 sends
Sender ==
  \/ \E e \in 0 .. (ept_count[0] - 1) : \E len \in MsgLens : send(0, 1, e, len)
  \/ \E size \in GetSizes : get_tx_buffer(0, 1, size)
  \/ \E e \in 0 .. (ept_count[0] - 1) : \E len \in MsgLens :
       len <= thr[0][1].buf.size /\ send_nocopy(0, 1, e, len)
  \/ drop_tx_buffer(0, 1)

\* the application of side 1 releases what its receive callback held
Receiver == \E index \in Blocks : release_rx_buffer(1, index)

ReceivedData(s) ==
  \/ received_data(s)
  \/ ReceivedCallback(s)
  \/ ReceivedDataDone(s)
  \/ received_release_data(s)

NextData == Sender \/ Receiver \/ \E s \in Sides : ReceivedData(s)

SpecData == InitData /\ [][NextData]_vars

(***************************************************************************)
(* SpecWake: two application threads of side 0 send, and use               *)
(* get_tx_buffer with K_FOREVER and drop_tx_buffer; the blocks of a        *)
(* message come back when side 1 has released them.  alloc_tx_buffer runs  *)
(* one kernel call per step.  The link does not fail and the receive       *)
(* callback of side 1 holds nothing.                                       *)
(***************************************************************************)
WakeSizes == {1, BlockSize - BLOCK_HEADER_SIZE + 1}

WakeThread(t) ==
  \/ \E len \in WakeSizes :
       thr[0][t].buf = NoBuf /\ send(0, t, 0, len) /\ log'[0].fails = log[0].fails
  \/ \E size \in WakeSizes : AllocCall(0, t, size, "K_FOREVER")
  \/ AllocTry(0, t)
  \/ AllocSemTake(0, t)
  \/ AllocGive(0, t)
  \/ ReleaseCall(0, t, -1)
  \/ ReleaseGive(0, t)

NextWake ==
  \/ \E t \in Threads : WakeThread(t)
  \/ received_data(1)
  \/ ReceivedCallback(1) /\ ~rxh'[1].held
  \/ ReceivedDataDone(1)
  \/ received_release_data(0)

SpecWake == InitCorrupt /\ [][NextWake]_vars

(***************************************************************************)
(* SpecEarly: bonding from the start, with an application on side 0 that   *)
(* calls send with the token of register_ept as soon as it has it, before  *)
(* the link is ready.                                                      *)
(***************************************************************************)
EarlySend ==
  \E e \in 0 .. (NUM_EP - 1) : \E len \in MsgLens :
    ~icmsg_bounded[0] /\ e < ept_count[0] /\ send(0, 1, e, len)

NextEarly == NextBond \/ EarlySend \/ \E s \in Sides : received_data(s)

SpecEarly == InitBond /\ [][NextEarly]_vars

(***************************************************************************)
(* Notifications the peer's backend did not send.  The peer owns the RX    *)
(* region and the link; a faulty peer can write any size in a block header *)
(* and pass any message to the link.                                       *)
(***************************************************************************)
\* the region a message's block index refers to on the side that receives it
RegionOf(s, msg) ==
  IF msg[1] \in {MSG_RELEASE_DATA, MSG_RELEASE_BOUND} THEN s ELSE Peer(s)

\* side s is sent msg; with size >= 0 the header of the block it names, a
\* block that is free, is given that size first
BadNotification(s, msg, size) ==
  /\ log[0].bad > 0
  /\ size >= 0 =>
       /\ Len(msg) = 2
       /\ msg[2] < BlockCount
       /\ ~tx_usage_bitmap[RegionOf(s, msg)][msg[2]]
  /\ shmem' = IF size >= 0
              THEN [shmem EXCEPT ![RegionOf(s, msg)][msg[2]].size = size]
              ELSE shmem
  /\ icmsg' = [icmsg EXCEPT ![Peer(s)] = Append(@, msg)]
  /\ log' = [log EXCEPT ![0].bad = @ - 1]
  /\ UNCHANGED <<tx_usage_bitmap, block_wait_sem, eptVars, thr, rxVars, fifo, mutex, conf, ram>>

\* SpecOverflow: side 1 has one endpoint more than the table of side 0 has
\* entries for; its BOUND message comes in the last block of side 1's region
InitOverflow ==
  /\ InitDevice /\ fifo = FifoInit(0) /\ mutex = MutexInit /\ conf = NoConf /\ ram = NoRam
  /\ log = [s \in Sides |-> [LogEmpty EXCEPT !.bad = IF s = 0 THEN BadBudget ELSE 0]]

ExtraBound ==
  BadNotification(0, <<MSG_BOUND, BlockCount - 1>>, BoundMsgLen(NameA))

NextOverflow == NextBond \/ ExtraBound

SpecOverflow == InitOverflow /\ [][NextOverflow]_vars

\* SpecName: bonding as in SpecPrefix while side 1, faulty, writes a BOUND
\* message into the last block of its region whose name runs to the end of
\* the blocks area without a terminator, and sends it
NameBytes == [k \in 1 .. (BlockSize - BLOCK_HEADER_SIZE) |-> IF k = 1 THEN 0 ELSE 65]

BadBound(s, bytes) ==
  /\ log[0].bad > 0
  /\ ~tx_usage_bitmap[Peer(s)][BlockCount - 1]
  /\ shmem' = [shmem EXCEPT ![Peer(s)][BlockCount - 1] =
                 [size |-> Len(bytes), data |-> bytes]]
  /\ icmsg' = [icmsg EXCEPT ![Peer(s)] = Append(@, <<MSG_BOUND, BlockCount - 1>>)]
  /\ log' = [log EXCEPT ![0].bad = @ - 1]
  /\ UNCHANGED <<tx_usage_bitmap, block_wait_sem, eptVars, thr, rxVars, fifo, mutex, conf, ram>>

NextName == NextPrefix \/ BadBound(0, NameBytes)

SpecName == InitOverflow /\ [][NextName]_vars

(***************************************************************************)
(* SpecValidate: side 0 is sent one data notification for any block index  *)
(* with a size in the block's header at the border of each number of       *)
(* blocks, or none written, or the largest word.                           *)
(***************************************************************************)
ValidateMsgs == {<<0, index>> : index \in 0 .. BlockCount}
ValidateSizes ==
  {-1, 0, SIZE_MOD - 1} \cup
  {k * BlockSize - BLOCK_HEADER_SIZE + d : k \in 1 .. BlockCount, d \in {0, 1}}

NextValidate ==
  \/ \E msg \in ValidateMsgs : \E size \in ValidateSizes : BadNotification(0, msg, size)
  \/ \E s \in Sides : ReceivedData(s)

SpecValidate == InitData /\ [][NextValidate]_vars

(***************************************************************************)
(* SpecCorrupt: data transfer as in SpecData while either side is sent     *)
(* notifications that do not pass validation: of a wrong length, with the  *)
(* block index BlockCount, for an address that is not registered, or for a *)
(* block whose header has a size beyond the blocks area.                   *)
(***************************************************************************)
MsgTypes == {0, MSG_BOUND, MSG_RELEASE_DATA, MSG_RELEASE_BOUND}

CorruptMsgs ==
  {<<0>>, <<0, 0, 0>>, <<NUM_EP, 0>>} \cup {<<type, BlockCount>> : type \in MsgTypes}

CorruptSizes == {BlockSize - BLOCK_HEADER_SIZE + 1, MaxAlloc + 1}

Corrupt(s) ==
  \/ \E msg \in CorruptMsgs : BadNotification(s, msg, -1)
  \/ \E type \in MsgTypes : \E size \in CorruptSizes :
       BadNotification(s, <<type, BlockCount - 1>>, size)

NextCorrupt ==
  \/ \E e \in 0 .. (ept_count[0] - 1) : send(0, 1, e, BlockSize - BLOCK_HEADER_SIZE + 1)
  \/ \E s \in Sides :
       \/ Corrupt(s)
       \/ ReceivedData(s)
       \/ received_invalid(s)
       \/ received_bound(s)
       \/ received_release_bound(s)

SpecCorrupt == InitCorrupt /\ [][NextCorrupt]_vars

(***************************************************************************)
(* SpecFifo: the FIFO of shmem_nrf53.c in one direction.  The sending      *)
(* thread calls shmem_tx_send, the receiving thread of the peer core loops *)
(* over shmem_rx_wait, shmem_rx_recv and rx_handler.  Each step is one     *)
(* access to the shared indexes, or the copy of one message.  An IPM       *)
(* signal gives the peer's semaphore at once.                              *)
(***************************************************************************)
backendVars == <<tx_usage_bitmap, rx_hold_bitmap, shmem, block_wait_sem, ept,
                 ept_count, waiting_bound_msg, icmsg_bounded, work, icmsg, thr,
                 rxh, log>>

\* the buffer of rx_thread
RxBufSize == 528

\* sizes of one item, of two, of a full ring; one that never fits beside the
\* empty item, and one that is refused
FifoSizes ==
  {0, 1, ITEM_SIZE + 1, (FifoCount - 2) * ITEM_SIZE, (FifoCount - 1) * ITEM_SIZE,
   (FifoCount - 1) * ITEM_SIZE + 1}

OobValues == {1, 65535}

\* the bytes of the n-th message
TxPayload(n, size) == [k \in 1 .. size |-> (16 * (n + 1) + k) % 256]

\* line 108, line 254: the items of size bytes
DataItems(size) == (size + (ITEM_SIZE - 1)) \div ITEM_SIZE

\* lines 127-131: the items that can be written
Available_all(read_index, write_index) ==
  IF read_index <= write_index
  THEN FifoCount - (write_index - read_index)
  ELSE read_index - write_index

\* the computation without the empty item when the write index is behind
\* the read index
Available_behind(read_index, write_index) ==
  IF read_index <= write_index
  THEN FifoCount - (write_index - read_index) - 1
  ELSE read_index - write_index

Available(read_index, write_index) ==
  IF read_index <= write_index
  THEN FifoCount - (write_index - read_index) - 1
  ELSE read_index - write_index - 1

\* memcpy(&tx_data[index], src + off, len)
CopyIn(data, index, src, off, len) ==
  [k \in DOMAIN data |->
     IF k >= index * ITEM_SIZE /\ k < index * ITEM_SIZE + len
     THEN src[off + (k - index * ITEM_SIZE) + 1]
     ELSE data[k]]

\* memcpy(dst, &rx_data[index], len): the bytes read
CopyOut(data, index, len) == [k \in 1 .. len |-> data[index * ITEM_SIZE + k - 1]]

\* line 148: the four bytes of the header size | oob_data << 16, stored
\* little-endian
HeaderBytes(size, oob_data) ==
  <<size % 256, (size \div 256) % 256, oob_data % 256, (oob_data \div 256) % 256>>

\* lines 246-247: rx_data[read_index] & 0xFFFF
HeaderSize(data, index) == data[index * ITEM_SIZE] + 256 * data[index * ITEM_SIZE + 1]

\* line 260: rx_data[read_index] >> 16
HeaderOob(data, index) ==
  data[index * ITEM_SIZE + 2] + 256 * data[index * ITEM_SIZE + 3]

\* lines 148-175: the header and the data are written; [data, write_index]
TxWritten(data, read_index, write_index, src, size, oob_data) ==
  LET d1 == CopyIn(data, write_index, HeaderBytes(size, oob_data), 0, ITEM_SIZE)
      w1 == IF write_index + 1 >= FifoCount THEN 0 ELSE write_index + 1
      data_items == DataItems(size)
      tail_items == FifoCount - w1
  IN IF w1 >= read_index /\ data_items >= tail_items
     THEN IF data_items > tail_items
          THEN [data |-> CopyIn(CopyIn(d1, w1, src, 0, tail_items * ITEM_SIZE),
                                0, src, tail_items * ITEM_SIZE,
                                size - tail_items * ITEM_SIZE),
                write_index |-> data_items - tail_items]
          ELSE [data |-> CopyIn(d1, w1, src, 0, size), write_index |-> 0]
     ELSE [data |-> CopyIn(d1, w1, src, 0, size), write_index |-> w1 + data_items]

\* lines 262-296: the data is read; [buf, read_index]
RxRead(data, read_index, write_index, msg_size) ==
  LET r1 == IF read_index + 1 >= FifoCount THEN 0 ELSE read_index + 1
      msg_items == DataItems(msg_size)
      tail_items == FifoCount - r1
  IN IF write_index < r1 /\ msg_items >= tail_items
     THEN IF msg_items > tail_items
          THEN [buf |-> CopyOut(data, r1, tail_items * ITEM_SIZE)
                          \o CopyOut(data, 0, msg_size - tail_items * ITEM_SIZE),
                read_index |-> msg_items - tail_items]
          ELSE [buf |-> CopyOut(data, r1, msg_size), read_index |-> 0]
     ELSE [buf |-> CopyOut(data, r1, msg_size), read_index |-> r1 + msg_items]

\* shmem_tx_send lines 108-123: the size is checked, the indexes are read
shmem_tx_send(size, oob_data) ==
  /\ fifo.tx.pc = "idle"
  /\ fifo.n < MaxSends
  /\ fifo' =
       IF 1 + DataItems(size) > FifoCount
       THEN [fifo EXCEPT !.tx.r = -ENOMEM]
       ELSE IF fifo.read_index >= FifoCount \/ fifo.write_index >= FifoCount
       THEN [fifo EXCEPT !.tx.r = -EIO]
       ELSE [fifo EXCEPT !.tx = [pc |-> "space", size |-> size, oob_data |-> oob_data,
                                 read_index |-> fifo.read_index,
                                 write_index |-> fifo.write_index, r |-> 0]]
  /\ UNCHANGED <<backendVars, mutex, conf, ram>>

\* lines 127-134: not enough items: the ACK is asked for
TxSpace ==
  /\ fifo.tx.pc = "space"
  /\ fifo' =
       IF Available(fifo.tx.read_index, fifo.tx.write_index) < 1 + DataItems(fifo.tx.size)
       THEN [fifo EXCEPT !.ack_index = fifo.tx.read_index, !.tx.pc = "asked"]
       ELSE [fifo EXCEPT !.tx.pc = "write"]
  /\ UNCHANGED <<backendVars, mutex, conf, ram>>

\* line 137: the wait is skipped if something was consumed
TxSkipOrWait ==
  /\ fifo.tx.pc = "asked"
  /\ fifo' = [fifo EXCEPT !.tx.pc = IF fifo.read_index = fifo.tx.read_index
                                    THEN "wait" ELSE "woken"]
  /\ UNCHANGED <<backendVars, mutex, conf, ram>>

\* line 139: k_sem_take(&tx_sem, K_FOREVER)
TxSemTake ==
  /\ fifo.tx.pc = "wait"
  /\ fifo.tx_sem > 0
  /\ fifo' = [fifo EXCEPT !.tx_sem = 0, !.tx.pc = "woken"]
  /\ UNCHANGED <<backendVars, mutex, conf, ram>>

\* line 141
TxAckOff ==
  /\ fifo.tx.pc = "woken"
  /\ fifo' = [fifo EXCEPT !.ack_index = NO_ACK, !.tx.pc = "reread"]
  /\ UNCHANGED <<backendVars, mutex, conf, ram>>

\* lines 142-145: the indexes are read again and the loop repeats
TxReread ==
  /\ fifo.tx.pc = "reread"
  /\ fifo' = [fifo EXCEPT !.tx.read_index = fifo.read_index,
                          !.tx.write_index = fifo.write_index, !.tx.pc = "space"]
  /\ UNCHANGED <<backendVars, mutex, conf, ram>>

\* lines 148-175: the message is written behind the write index
TxWrite ==
  /\ fifo.tx.pc = "write"
  /\ LET w == TxWritten(fifo.data, fifo.tx.read_index, fifo.tx.write_index,
                        TxPayload(fifo.n, fifo.tx.size), fifo.tx.size, fifo.tx.oob_data)
     IN fifo' = [fifo EXCEPT !.data = w.data, !.tx.write_index = w.write_index,
                             !.tx.pc = "publish"]
  /\ UNCHANGED <<backendVars, mutex, conf, ram>>

\* line 181: the write index is stored
TxPublish ==
  /\ fifo.tx.pc = "publish"
  /\ fifo' = [fifo EXCEPT
                !.write_index = fifo.tx.write_index,
                !.sent = Append(@, [size |-> fifo.tx.size, oob_data |-> fifo.tx.oob_data,
                                    data |-> TxPayload(fifo.n, fifo.tx.size)]),
                !.tx.pc = "notify"]
  /\ UNCHANGED <<backendVars, mutex, conf, ram>>

\* lines 189-191: the peer is signalled, the call returns 0
TxNotify ==
  /\ fifo.tx.pc = "notify"
  /\ fifo' = [fifo EXCEPT !.rx_sem = k_sem_give(@), !.n = @ + 1, !.tx.pc = "idle"]
  /\ UNCHANGED <<backendVars, mutex, conf, ram>>

\* shmem_rx_wait lines 203-208: the FIFO is empty, the semaphore is taken
RxWaitSem ==
  /\ fifo.rx.pc = "idle"
  /\ fifo.read_index = fifo.write_index
  /\ fifo.rx_sem > 0
  /\ fifo' = [fifo EXCEPT !.rx_sem = 0]
  /\ UNCHANGED <<backendVars, mutex, conf, ram>>

\* shmem_rx_wait returns
RxWaitDone ==
  /\ fifo.rx.pc = "idle"
  /\ fifo.read_index # fifo.write_index
  /\ fifo' = [fifo EXCEPT !.rx.pc = "recv"]
  /\ UNCHANGED <<backendVars, mutex, conf, ram>>

\* shmem_rx_recv lines 231-243: the indexes are read and checked
RxSnapshot ==
  /\ fifo.rx.pc = "recv"
  /\ fifo' =
       IF fifo.read_index >= FifoCount \/ fifo.write_index >= FifoCount
       THEN [fifo EXCEPT !.rx.result = -EIO, !.rx.pc = "idle"]
       ELSE IF fifo.read_index = fifo.write_index
       THEN [fifo EXCEPT !.rx.result = -EAGAIN, !.rx.pc = "idle"]
       ELSE [fifo EXCEPT !.rx.read_index = fifo.read_index,
                         !.rx.old_read_index = fifo.read_index,
                         !.rx.write_index = fifo.write_index, !.rx.pc = "copy"]
  /\ UNCHANGED <<backendVars, mutex, conf, ram>>

\* lines 246-296: the header is decoded and the data copied
RxCopy ==
  /\ fifo.rx.pc = "copy"
  /\ LET msg_size == HeaderSize(fifo.data, fifo.rx.read_index)
         rd == RxRead(fifo.data, fifo.rx.read_index, fifo.rx.write_index, msg_size)
     IN fifo' =
          IF RxBufSize < msg_size
          THEN [fifo EXCEPT !.rx.result = -EINVAL, !.rx.oob_data = msg_size,
                            !.rx.pc = "idle"]
          ELSE IF DataItems(msg_size) >= FifoCount
          THEN [fifo EXCEPT !.rx.result = -EIO, !.rx.pc = "idle"]
          ELSE [fifo EXCEPT !.rx.result = msg_size, !.rx.oob_data = HeaderOob(fifo.data, fifo.rx.read_index),
                            !.rx.buf = rd.buf, !.rx.read_index = rd.read_index,
                            !.rx.pc = "publish"]
  /\ UNCHANGED <<backendVars, mutex, conf, ram>>

\* line 304: the read index is stored
RxPublish ==
  /\ fifo.rx.pc = "publish"
  /\ fifo' = [fifo EXCEPT !.read_index = fifo.rx.read_index, !.rx.pc = "ack"]
  /\ UNCHANGED <<backendVars, mutex, conf, ram>>

\* lines 310-314 and rx_handler: the ACK is sent if it was asked for at the
\* old read index; the message is handed over
RxAck ==
  /\ fifo.rx.pc = "ack"
  /\ LET msg == [size |-> fifo.rx.result, oob_data |-> fifo.rx.oob_data,
                 data |-> fifo.rx.buf]
     IN fifo' = [fifo EXCEPT
                   !.tx_sem = IF fifo.ack_index = fifo.rx.old_read_index
                              THEN k_sem_give(@) ELSE @,
                   !.ok = @ /\ fifo.sent # <<>> /\ msg = Head(fifo.sent),
                   !.sent = IF @ = <<>> THEN @ ELSE Tail(@),
                   !.rx.pc = "idle"]
  /\ UNCHANGED <<backendVars, mutex, conf, ram>>

InitFifo ==
  /\ InitDevice
  /\ log = [s \in Sides |-> LogEmpty]
  /\ \E sem \in {0, 1} : fifo = FifoInit(sem)
  /\ mutex = MutexInit /\ conf = NoConf /\ ram = NoRam

NextFifo ==
  \/ \E size \in FifoSizes : \E oob_data \in OobValues : shmem_tx_send(size, oob_data)
  \/ TxSpace
  \/ TxSkipOrWait
  \/ TxSemTake
  \/ TxAckOff
  \/ TxReread
  \/ TxWrite
  \/ TxPublish
  \/ TxNotify
  \/ RxWaitSem
  \/ RxWaitDone
  \/ RxSnapshot
  \/ RxCopy
  \/ RxPublish
  \/ RxAck

SpecFifo == InitFifo /\ [][NextFifo]_vars

(***************************************************************************)
(* SpecNocopy: the zero-copy calls of side 0 with every kind of length: in *)
(* the buffer, beyond its blocks, and beyond INT_MAX.                      *)
(***************************************************************************)
NocopyLens ==
  {0, 1, BlockSize - BLOCK_HEADER_SIZE + 1, 2 * BlockSize - BLOCK_HEADER_SIZE + 1,
   INT_MAX + 1, SIZE_MOD - 1}

SenderNocopy ==
  \/ \E size \in GetSizes : get_tx_buffer(0, 1, size)
  \/ \E e \in 0 .. (ept_count[0] - 1) : \E len \in NocopyLens : send_nocopy(0, 1, e, len)
  \/ drop_tx_buffer(0, 1)

NextNocopy == SenderNocopy \/ Receiver \/ \E s \in Sides : ReceivedData(s)

SpecNocopy == InitData /\ [][NextNocopy]_vars

(***************************************************************************)
(* Properties of bonding                                                   *)
(***************************************************************************)
\* endpoint of side s registered under name, or -1
EptByName(s, name) ==
  LET hits == {i \in 0 .. (ept_count[s] - 1) : ept[s][i].name = name}
  IN IF hits = {} THEN -1 ELSE CHOOSE i \in hits : TRUE

IsReady(s, name) ==
  EptByName(s, name) >= 0 /\ ept[s][EptByName(s, name)].state = EPT_READY

AllReady == \A s \in Sides : \A name \in Names : IsReady(s, name)

\* nothing is left to do: all registrations made, links ready and empty,
\* workers idle with no run submitted
Quiescent ==
  \A s \in Sides :
    /\ Registered(s) = Names
    /\ icmsg_bounded[s]
    /\ icmsg[s] = <<>>
    /\ work[s] = WorkIdle

\* C3: on a link that delivers every message in order, with both sides
\* registering "A" and "B" and every submitted worker run executed, all four
\* endpoints eventually reach READY, whatever the interleaving
C3_BondingLiveness == <>[]AllReady

\* C3: all four endpoints READY, each bound callback called, on sides that
\* registered "A" and "B" in different orders
C3_Witness ==
  /\ AllReady
  /\ ept[0][0].name # ept[1][0].name
  /\ Quiescent
  /\ \A s \in Sides : \A name \in Names : log[s].bound_cb[EptByName(s, name)] = 1

\* C4: the bound callback of an endpoint is never invoked a second time
C4_BoundCallbackOnce ==
  \A s \in Sides : \A e \in 0 .. (NUM_EP - 1) : log[s].bound_cb[e] <= 1

\* C7: after link-send failures during bonding steps, once sends succeed
\* again and all work is done, every endpoint is READY
C7_FailedStepRetried == Quiescent => AllReady

(***************************************************************************)
(* Properties of data transfer (SpecData)                                  *)
(***************************************************************************)
\* side s takes a RELEASE_DATA message from the link
ReleaseDataStep(s) ==
  /\ CanReceive(s)
  /\ Head(icmsg[Peer(s)])[1] = MSG_RELEASE_DATA
  /\ icmsg'[Peer(s)] = Tail(icmsg[Peer(s)])

\* the round trip of a send made in a quiet state ends on side s: the peer's
\* callback did not hold, nothing else touched the bitmap, and the
\* RELEASE_DATA is processed now
RoundTripEnds(s) == log[s].snap.on /\ ReleaseDataStep(s)

\* C2: after send, delivery without hold and the processing of the
\* RELEASE_DATA, the sender's TX bitmap is what it was before the send, for
\* every payload length
C2_RoundTrip ==
  [][\A s \in Sides : RoundTripEnds(s) => tx_usage_bitmap'[s] = log[s].snap.bm]_vars

\* the same for payloads of at least one byte
C2_RoundTripNonEmpty ==
  [][\A s \in Sides :
       RoundTripEnds(s) /\ (\A t \in Threads : thr[s][t].op = "send" => thr[s][t].size > 0)
         => tx_usage_bitmap'[s] = log[s].snap.bm]_vars

\* the blocks the send of the round trip reserved, and those its
\* RELEASE_DATA frees
ReservedBlocks(s) == {b \in Blocks : tx_usage_bitmap[s][b] /\ ~log[s].snap.bm[b]}
FreedBlocks(s) == {b \in Blocks : tx_usage_bitmap[s][b] /\ ~tx_usage_bitmap'[s][b]}

\* C18: the RELEASE_DATA of a message frees as many blocks as the send of
\* the message reserved
C18_FreedEqualsReserved ==
  [][\A s \in Sides :
       RoundTripEnds(s) => Cardinality(FreedBlocks(s)) = Cardinality(ReservedBlocks(s))]_vars

\* C18, the worked example at the model's scale: a message one byte longer
\* than a block holds reserved two adjacent blocks, the first of which the
\* RELEASE_DATA names, and these two and no others are freed
C18_WorkedExample ==
  [][\A s \in Sides :
       /\ RoundTripEnds(s)
       /\ \A t \in Threads :
            thr[s][t].op = "send" => thr[s][t].size = BlockSize - BLOCK_HEADER_SIZE + 1
       => LET first == Head(icmsg[Peer(s)])[2]
          IN /\ ReservedBlocks(s) = {first, first + 1}
             /\ FreedBlocks(s) = ReservedBlocks(s)
             /\ \A b \in Blocks \ FreedBlocks(s) :
                  tx_usage_bitmap'[s][b] = tx_usage_bitmap[s][b]]_vars

\* nothing under way towards the callbacks of side s
Delivered(s) == icmsg[Peer(s)] = <<>> /\ rxh[s].pc = "idle"

\* C5: every message sent with success is given, once and in order, to the
\* receive callback of the peer endpoint of the same name, with the sent
\* length and bytes, whatever the orders of registration
C5_Delivery ==
  \A s \in Sides :
    /\ log[s].last = log[s].expect
    /\ Delivered(s) => log[Peer(s)].sent = <<>>

\* C5: a message of two blocks sent by the endpoint at address 0 was given
\* to the peer's endpoint at address 1
C5_Witness ==
  /\ ept[0][0].name = ept[1][1].name
  /\ log[1].got = 1
  /\ log[1].last.name = ept[0][0].name
  /\ log[1].last.len > BlockSize - BLOCK_HEADER_SIZE
  /\ Delivered(1)

\* thread t of side s returns from send or send_nocopy with the link's error
SendFails(s, t) ==
  /\ log'[s].fails < log[s].fails
  /\ rxh' = rxh
  /\ thr'[s][t].op \in {"send", "nocopy"}
  /\ thr'[s][t].r = -EIO

\* the blocks a call of send or send_nocopy leaves reserved: those it took
\* itself, or those of the buffer it was given
LeftReserved(s, t) ==
  {b \in Blocks :
     /\ tx_usage_bitmap'[s][b]
     /\ IF thr'[s][t].op = "send"
        THEN ~tx_usage_bitmap[s][b]
        ELSE /\ b >= thr[s][t].buf.idx
             /\ b < thr[s][t].buf.idx + BlocksNeeded(thr[s][t].buf.size)}

\* C6: when the link's send fails in send or send_nocopy, the call returns
\* the link's error and no block of the message stays reserved
C6_SendRollback ==
  [][\A s \in Sides : \A t \in Threads : SendFails(s, t) => LeftReserved(s, t) = {}]_vars

\* the same for payloads of at least one byte
C6_SendRollbackNonEmpty ==
  [][\A s \in Sides : \A t \in Threads :
       SendFails(s, t) /\ thr'[s][t].size > 0 => LeftReserved(s, t) = {}]_vars

\* the receive handler of side s leaves received_data
DataDoneStep(s) == rxh[s].pc = "after" /\ rxh'[s].pc = "idle"

\* C8: the hold bit of the block is clear when the receive callback is
\* entered, and after the callback a RELEASE_DATA for the block is sent
\* exactly when the callback did not hold the buffer
C8_HoldAndRelease ==
  [][\A s \in Sides :
       /\ rxh[s].pc = "cb" => ~rx_hold_bitmap[s][rxh[s].idx]
       /\ DataDoneStep(s) /\ log'[s].fails = log[s].fails =>
            IF rxh[s].held
            THEN icmsg'[s] = icmsg[s]
            ELSE icmsg'[s] = Append(icmsg[s], <<MSG_RELEASE_DATA, rxh[s].idx>>)]_vars

\* C8: a message was received in a block whose hold bit was still set from
\* an earlier held message, the callback did not hold it, and its release
\* is on the link
C8_Witness ==
  /\ rxh[1].pc = "idle"
  /\ rxh[1].stale
  /\ ~rxh[1].held
  /\ icmsg[1] # <<>>
  /\ icmsg[1][Len(icmsg[1])] = <<MSG_RELEASE_DATA, rxh[1].idx>>

(***************************************************************************)
(* Properties of send_nocopy (SpecNocopy)                                  *)
(***************************************************************************)
\* thread t of side s calls send_nocopy on the buffer it holds
NocopyStep(s, t) == thr[s][t].buf # NoBuf /\ thr'[s][t].op = "nocopy"

\* what C11 says of one call whose link send does not fail
NocopyContract(s, t) ==
  LET idx == thr[s][t].buf.idx
      held == BlocksNeeded(thr[s][t].buf.size)
      len == thr'[s][t].size
      need == BlocksNeeded(len)
  IN IF need <= held
     THEN /\ thr'[s][t].r = 0
          /\ Len(icmsg'[s]) = Len(icmsg[s]) + 1
          /\ icmsg'[s][Len(icmsg'[s])][2] = idx
          /\ shmem'[s][idx].size = len
          /\ \A b \in Blocks :
               tx_usage_bitmap'[s][b] =
                 IF b >= idx + need /\ b < idx + held THEN FALSE
                 ELSE tx_usage_bitmap[s][b]
     ELSE /\ thr'[s][t].r < 0
          /\ icmsg'[s] = icmsg[s]
          /\ \A b \in Blocks :
               tx_usage_bitmap'[s][b] =
                 IF b >= idx /\ b < idx + held THEN FALSE ELSE tx_usage_bitmap[s][b]

\* C11: send_nocopy with a len that fits the buffer's blocks shrinks the
\* buffer to the blocks len needs and sends one data notification; with a
\* len that needs more blocks it sends nothing, returns the error and frees
\* every block of the buffer
C11_NocopyShrink ==
  [][\A s \in Sides : \A t \in Threads :
       NocopyStep(s, t) /\ log'[s].fails = log[s].fails => NocopyContract(s, t)]_vars

\* the same for the lengths an int holds, on a buffer whose blocks no
\* earlier call with a longer length has given away
C11_NocopyShrinkInt ==
  [][\A s \in Sides : \A t \in Threads :
       (/\ NocopyStep(s, t)
        /\ log'[s].fails = log[s].fails
        /\ thr'[s][t].size <= INT_MAX
        /\ RunSet(tx_usage_bitmap[s], thr[s][t].buf.idx, BlocksNeeded(thr[s][t].buf.size)))
         => NocopyContract(s, t)]_vars

(***************************************************************************)
(* Properties of the endpoint states (SpecBond, SpecBondFail, SpecBondDup) *)
(***************************************************************************)
\* the moves of an endpoint's state: forward one step, or back from BOUNDING
\* after a failed send of BOUND
StateMoves ==
  {<<EPT_UNCONFIGURED, EPT_CONFIGURED>>, <<EPT_CONFIGURED, EPT_BOUNDING>>,
   <<EPT_BOUNDING, EPT_BOUNDED>>, <<EPT_BOUNDED, EPT_READY>>,
   <<EPT_BOUNDING, EPT_UNCONFIGURED>>}

\* C20: every change of an endpoint's state is one of the moves; so BOUNDED
\* is entered from BOUNDING only and READY is never left
C20_StateOrder ==
  [][\A s \in Sides : \A e \in 0 .. (NUM_EP - 1) :
       \/ ept'[s][e].state = ept[s][e].state
       \/ <<ept[s][e].state, ept'[s][e].state>> \in StateMoves]_vars

(***************************************************************************)
(* Properties of registration (SpecRegister)                               *)
(***************************************************************************)
\* the application of side s calls register_ept
RegisterCalled(s) == log'[s].reg # log[s].reg

NothingSent(s) ==
  /\ \/ icmsg'[s] = icmsg[s]
     \/ icmsg[s] # <<>> /\ icmsg'[s] = Tail(icmsg[s])
  /\ \A e \in 0 .. (NUM_EP - 1) :
       ept'[s][e].state \in {ept[s][e].state, EPT_CONFIGURED}

\* C16: before on_ready has fired on a side, no step of that side passes a
\* notification to the link or moves an endpoint out of CONFIGURED
C16_NoSendBeforeReady ==
  [][\A s \in Sides : ~icmsg_bounded[s] => NothingSent(s)]_vars

\* C16, for the worker, the handlers and register_ept: every step of a side
\* that is not a call of send by its application
C16_BackendWaitsForReady ==
  [][\A s \in Sides :
       ~icmsg_bounded[s] /\ log'[s].ops = log[s].ops => NothingSent(s)]_vars

(***************************************************************************)
(* Properties of the granted size (SpecAlloc)                              *)
(***************************************************************************)
\* what C13 says of a call that returns a buffer to thread t; the size-0
\* form asks for the largest run, so only the lower bound applies to it
GrantCovers(t) ==
  LET size == thr[0][t].size
      granted == thr'[0][t].buf.size
  IN /\ granted >= size
     /\ size > 0 => granted = BlocksNeeded(size) * BlockSize - BLOCK_HEADER_SIZE

\* C13: a successful allocate grants at least the requested size, and
\* exactly blocks * block_size - header with blocks = ceil((size + header) /
\* block_size), for every size the 32-bit argument holds
C13_GrantCoversRequest ==
  [][\A t \in Threads :
       AllocReturns(t) /\ thr'[0][t].r >= 0 => GrantCovers(t)]_vars

\* the same for the sizes whose sum with the header does not wrap
C13_GrantCoversRequestNoWrap ==
  [][\A t \in Threads :
       (AllocReturns(t) /\ thr'[0][t].r >= 0
          /\ thr[0][t].size + BLOCK_HEADER_SIZE < SIZE_MOD) => GrantCovers(t)]_vars

(***************************************************************************)
(* Properties of the size-0 allocation (SpecAllocSeq)                      *)
(***************************************************************************)
\* the maximal run of clear bits of bm anchored at its first clear bit
FreeRun(bm) ==
  {b \in Blocks :
     /\ ~bm[b]
     /\ \E first \in Blocks :
          /\ first <= b
          /\ \A c \in 0 .. (first - 1) : bm[c]
          /\ \A c \in first .. b : ~bm[c]}

\* the blocks of the buffer a call returns to thread t
Granted(t) ==
  LET buf == thr'[0][t].buf
  IN buf.idx .. (buf.idx + BlocksNeeded(buf.size) - 1)

\* C14: an allocate with size 0 that returns a buffer grants exactly the
\* maximal run of free blocks anchored at the first free block of the
\* bitmap it was called on: every block reserved then stays outside the
\* grant and no other bit changes
C14_MaximalRun ==
  [][\A t \in Threads :
       (AllocReturns(t) /\ thr[0][t].size = 0 /\ thr'[0][t].r >= 0)
         => /\ log[0].snap.on
            /\ Granted(t) = FreeRun(log[0].snap.bm)
            /\ \A b \in Blocks :
                 tx_usage_bitmap'[0][b] = (log[0].snap.bm[b] \/ b \in Granted(t))]_vars

\* C14: with block 1 reserved by the other thread and blocks 0 and 2 free,
\* a size-0 allocation was granted block 0 alone and block 2 is still free
C14_Witness ==
  \E t, u \in Threads :
    /\ thr[0][t].pc = "idle" /\ thr[0][t].op = "alloc" /\ thr[0][t].size = 0
    /\ thr[0][t].buf = [idx |-> 0, size |-> BlockSize - BLOCK_HEADER_SIZE]
    /\ thr[0][u].buf.idx = 1
    /\ tx_usage_bitmap[0][1] /\ ~tx_usage_bitmap[0][2]

(***************************************************************************)
(* Properties of dropped notifications (SpecCorrupt)                       *)
(***************************************************************************)
\* the notification at the head of the link to side s does not pass the
\* checks of received and its handlers
FailsValidation(s) ==
  LET msg == Head(icmsg[Peer(s)])
  IN \/ Len(msg) # 2
     \/ msg[2] >= BlockCount
     \/ shmem[RegionOf(s, msg)][msg[2]].size >
          BlockCount * BlockSize - BLOCK_HEADER_SIZE - msg[2] * BlockSize
     \/ msg[1] <= EPT_ADDR_MAX /\ msg[1] >= ept_count[s]

\* side s takes the notification at the head of the link
TakesHead(s) == Incoming(s) /\ icmsg'[Peer(s)] = Tail(icmsg[Peer(s)])

\* C17: a notification that fails validation is taken from the link and
\* nothing else happens: no callback is entered or counted, the TX bitmap,
\* the endpoints and the waiting BOUND messages are as before, and so are
\* the regions, the hold bitmap, the semaphore, the work and the threads,
\* so that what follows runs as if it had not come
C17_InvalidDropped ==
  [][\A s \in Sides :
       TakesHead(s) /\ FailsValidation(s)
         => /\ rxh' = rxh
            /\ log'[s].bound_cb = log[s].bound_cb
            /\ log'[s].last = log[s].last /\ log'[s].got = log[s].got
            /\ UNCHANGED <<tx_usage_bitmap, ept, ept_count, waiting_bound_msg>>
            /\ UNCHANGED <<shmem, rx_hold_bitmap, block_wait_sem, icmsg_bounded,
                           work, thr>>
            /\ icmsg'[s] = icmsg[s]]_vars

\* C17: a notification for a block with a header beyond the area was
\* dropped, and the messages side 0 sent were delivered and released
C17_Witness ==
  /\ log[0].bad = 0
  /\ \E r \in Sides : shmem[r][BlockCount - 1].size > MaxAlloc
  /\ \A s \in Sides : icmsg[s] = <<>> /\ rxh[s].pc = "idle"
  /\ log[0].ops = MaxOps
  /\ log[1].got = 1 /\ log[1].last = log[1].expect
  /\ \A b \in Blocks : ~tx_usage_bitmap[0][b]

(***************************************************************************)
(* Properties of the shared-memory FIFO (SpecFifo)                         *)
(***************************************************************************)
\* C19: every message handed to rx_handler is the oldest message sent and
\* not yet handed over, with its length, bytes and out-of-band value, and
\* when both threads are idle on an empty FIFO no sent message is left
C19_FifoDelivery ==
  /\ fifo.ok
  /\ /\ fifo.tx.pc = "idle" /\ fifo.rx.pc = "idle"
     /\ fifo.read_index = fifo.write_index
     => fifo.sent = <<>>

\* C19: all messages were sent and handed over; the last had its header in
\* the last item but one and its data in the last item and the first
C19_Witness ==
  /\ fifo.n = MaxSends /\ fifo.sent = <<>> /\ fifo.rx.pc = "idle"
  /\ fifo.rx.old_read_index = FifoCount - 2
  /\ fifo.rx.result = 2 * ITEM_SIZE
  /\ fifo.rx.read_index = 1

(***************************************************************************)
(* Properties of validation (SpecValidate)                                 *)
(***************************************************************************)
\* side s takes a data message for one of its endpoints from the link
DataStep(s) ==
  /\ CanReceive(s)
  /\ Head(icmsg[Peer(s)])[1] < ept_count[s]
  /\ icmsg'[Peer(s)] = Tail(icmsg[Peer(s)])

\* data[size] of block index ends inside the blocks area
InArea(mem, index) ==
  /\ index < BlockCount
  /\ index * BlockSize + BLOCK_HEADER_SIZE + mem[index].size <= BlockCount * BlockSize

\* C12: validation with size checking accepts the block (the receive
\* callback is entered) exactly when the index is below the block count and
\* the header's size keeps the end of the data inside the blocks area
C12_Validate ==
  [][\A s \in Sides :
       DataStep(s) =>
         (rxh'[s].pc = "cb" <=> InArea(shmem[Peer(s)], Head(icmsg[Peer(s)])[2]))]_vars

\* C12: the last block was accepted with the largest size that fits it
C12_Witness ==
  /\ rxh[0].pc = "cb"
  /\ rxh[0].idx = BlockCount - 1
  /\ shmem[1][rxh[0].idx].size = BlockSize - BLOCK_HEADER_SIZE

(***************************************************************************)
(* Properties of the wake-up of blocked allocations (SpecWake)             *)
(***************************************************************************)
\* thread t is blocked in k_sem_take of alloc_tx_buffer
Blocked(t) == thr[0][t].pc = "wait"

\* the blocks thread t asked for are free in a row
RequestFits(t) ==
  \E off \in 0 .. (BlockCount - thr[0][t].n) :
    \A b \in off .. (off + thr[0][t].n - 1) : ~tx_usage_bitmap[0][b]

\* no thread of the side is running: each is blocked or outside the allocator
NobodyRuns == \A u \in Threads : thr[0][u].pc \in {"idle", "wait"}

\* C21: every release that frees a TX block wakes all threads blocked in
\* allocate, so a blocked allocate whose request fits in the free blocks
\* retries and returns: no thread stays blocked on the semaphore with its
\* request fitting while the semaphore is 0 and no other thread is running.
C21_AllWaitersWoken ==
  \A t \in Threads :
    ~(Blocked(t) /\ RequestFits(t) /\ block_wait_sem[0] = 0 /\ NobodyRuns)

\* the same with a single waiter: the release's give is there for it
C21_SingleWaiterWoken ==
  \A t \in Threads :
    ~(/\ Blocked(t) /\ RequestFits(t) /\ block_wait_sem[0] = 0
      /\ \A u \in Threads \ {t} : thr[0][u].pc = "idle")

(***************************************************************************)
(* Properties of the waiting BOUND messages (SpecBond, SpecBondFail)       *)
(***************************************************************************)
\* the worker of side s clears slot i on this step
ClearsSlot(s, i) ==
  /\ waiting_bound_msg[s][i] # WAITING_BOUND_MSG_EMPTY
  /\ waiting_bound_msg'[s][i] = WAITING_BOUND_MSG_EMPTY

\* the BOUND message in RX block b of side s carries the name of endpoint e
Names_equal(s, b, e) ==
  /\ e < ept_count[s]
  /\ shmem[Peer(s)][b].data =
       BoundMsg(ByteAt(shmem[Peer(s)][b].data, 0), ept[s][e].name)

\* the message in RX block b is matched in the endpoint table E: an endpoint
\* with its name has the sender's address as its remote address
MatchedIn(E, s, b) ==
  \E e \in 0 .. (NUM_EP - 1) :
    /\ Names_equal(s, b, e)
    /\ E[e].remote_addr = ByteAt(shmem[Peer(s)][b].data, 0)

\* the worker is past the send of RELEASE_BOUND for slot i
ReleaseBoundTried(s, i) == work[s].pc = "rel_done" /\ work[s].i = i

\* C22: a pending slot is cleared only after its BOUND message was matched
\* and acknowledged: the worker has sent the RELEASE_BOUND notification for
\* the slot's block, and the link has taken it.
C22_ClearedOnlyAcked ==
  [][\A s \in Sides : \A i \in 0 .. (NUM_EP - 1) :
       ClearsSlot(s, i) => ReleaseBoundTried(s, i) /\ work[s].r >= 0]_vars

\* the part of C22 that does not depend on the link: a slot is cleared only
\* by the worker, after it passed the slot's RELEASE_BOUND to the link
C22_ClearedOnlyMatched ==
  [][\A s \in Sides : \A i \in 0 .. (NUM_EP - 1) :
       ClearsSlot(s, i) => ReleaseBoundTried(s, i)]_vars

\* C22, the worker run: a run that starts with a pending message of a
\* registered name goes to the send of RELEASE_BOUND; whenever the worker
\* goes to that send, the slot's message is matched (the endpoint of its
\* name has the sender's address); and the send the link takes is the
\* notification (MSG_RELEASE_BOUND, block of the slot).
C22_MatchProcessed ==
  [][\A s \in Sides :
       /\ (/\ work[s].pc = "idle" /\ work'[s] # work[s] /\ work[s].queued
           /\ icmsg_bounded[s] /\ ept_count'[s] = ept_count[s]
           /\ \E i \in 0 .. (NUM_EP - 1) : \E e \in 0 .. (NUM_EP - 1) :
                /\ waiting_bound_msg[s][i] # WAITING_BOUND_MSG_EMPTY
                /\ Names_equal(s, waiting_bound_msg[s][i], e))
          => work'[s].pc = "rel_send"
       /\ (work[s].pc # "rel_send" /\ work'[s].pc = "rel_send")
          => /\ waiting_bound_msg[s][work'[s].i] # WAITING_BOUND_MSG_EMPTY
             /\ MatchedIn(ept'[s], s, waiting_bound_msg[s][work'[s].i])
       /\ (work[s].pc = "rel_send" /\ work'[s].pc = "rel_done" /\ work'[s].r >= 0)
          => icmsg'[s] = Append(icmsg[s], <<MSG_RELEASE_BOUND,
                                            waiting_bound_msg[s][work[s].i]>>)]_vars

\* slot i of side s holds a BOUND message that no registered endpoint has the
\* name of (the slot the worker has just acknowledged is not pending any more)
Unmatched(s, i) ==
  /\ waiting_bound_msg[s][i] # WAITING_BOUND_MSG_EMPTY
  /\ ~ReleaseBoundTried(s, i)
  /\ \A e \in 0 .. (NUM_EP - 1) : ~Names_equal(s, waiting_bound_msg[s][i], e)

\* slot i of side s holds a BOUND message with the name of a registered endpoint
Matchable(s, i) ==
  /\ waiting_bound_msg[s][i] # WAITING_BOUND_MSG_EMPTY
  /\ \E e \in 0 .. (NUM_EP - 1) : Names_equal(s, waiting_bound_msg[s][i], e)

\* the work queue starts the handler of side s on this step
RunStarts(s) == work[s].queued /\ work[s].pc = "idle" /\ work'[s] # work[s]

\* C23: a pending BOUND message whose name matches no registered endpoint
\* stays in its slot on every step, no RELEASE_BOUND is sent for its block,
\* and while all pending messages are such no remote address changes; a
\* worker run that starts when an endpoint of the name is registered matches
\* the message (the first such slot): the endpoint gets the sender's address
\* and the worker goes to send RELEASE_BOUND for that slot.
C23_UnmatchedStaysPending ==
  [][\A s \in Sides :
       /\ \A i \in 0 .. (NUM_EP - 1) :
            Unmatched(s, i) =>
              /\ waiting_bound_msg'[s][i] = waiting_bound_msg[s][i]
              /\ icmsg'[s] # Append(icmsg[s], <<MSG_RELEASE_BOUND,
                                                waiting_bound_msg[s][i]>>)
       /\ (\A i \in 0 .. (NUM_EP - 1) :
             waiting_bound_msg[s][i] # WAITING_BOUND_MSG_EMPTY => Unmatched(s, i))
          => \A e \in 0 .. (ept_count[s] - 1) :
               ept'[s][e].remote_addr = ept[s][e].remote_addr
       /\ (RunStarts(s) /\ icmsg_bounded[s]
           /\ \E i \in 0 .. (NUM_EP - 1) : Matchable(s, i))
          => LET first == CHOOSE i \in 0 .. (NUM_EP - 1) :
                            /\ Matchable(s, i)
                            /\ \A j \in 0 .. (i - 1) : ~Matchable(s, j)
             IN /\ work'[s].pc = "rel_send"
                /\ work'[s].i = first
                /\ MatchedIn(ept'[s], s, waiting_bound_msg[s][first])]_vars

\* a worker run of side 0 has ended with a message still pending whose name
\* is not registered there, next to an endpoint of another name that is READY
C23_Witness ==
  /\ \E i \in 0 .. (NUM_EP - 1) : Unmatched(0, i)
  /\ work[0] = WorkIdle
  /\ \E e \in 0 .. (ept_count[0] - 1) : ept[0][e].state = EPT_READY

(***************************************************************************)
(* Properties of received_bound (SpecOverflow)                             *)
(***************************************************************************)
\* side s takes a BOUND notification that passes validation
TakesBound(s) ==
  /\ TakesHead(s)
  /\ Len(Head(icmsg[Peer(s)])) = 2
  /\ Head(icmsg[Peer(s)])[1] = MSG_BOUND
  /\ ~FailsValidation(s)

\* slots of side s that are empty
EmptySlots(s) ==
  {i \in 0 .. (NUM_EP - 1) : waiting_bound_msg[s][i] = WAITING_BOUND_MSG_EMPTY}

\* C24: a valid BOUND notification that arrives while every pending slot is
\* occupied is reported as an overflow (-ENOMEM), all slots stay as they are
\* and the worker is scheduled; with a slot free the block index is stored in
\* exactly one empty slot, the other slots stay, and the worker is scheduled.
C24_BoundOverflow ==
  [][\A s \in Sides :
       TakesBound(s) =>
         /\ work'[s].queued
         /\ IF EmptySlots(s) = {}
            THEN /\ log'[s].rx = -ENOMEM
                 /\ waiting_bound_msg'[s] = waiting_bound_msg[s]
            ELSE /\ log'[s].rx = 0
                 /\ \E i \in EmptySlots(s) :
                      /\ waiting_bound_msg'[s][i] = Head(icmsg[Peer(s)])[2]
                      /\ \A j \in (0 .. (NUM_EP - 1)) \ {i} :
                           waiting_bound_msg'[s][j] = waiting_bound_msg[s][j]]_vars

\* the overflow was reported on side 0, whose slots are all occupied, and the
\* worker has run since
C24_Witness ==
  /\ log[0].rx = -ENOMEM
  /\ EmptySlots(0) = {}
  /\ work[0] = WorkIdle

(***************************************************************************)
(* Properties of received_release_bound (SpecPrefix)                       *)
(***************************************************************************)
\* side s takes a RELEASE_BOUND notification for block b
TakesReleaseBound(s, b) ==
  /\ TakesHead(s)
  /\ Head(icmsg[Peer(s)]) = <<MSG_RELEASE_BOUND, b>>

\* TX block b of side s is the start of the buffer that carries the BOUND
\* message of endpoint e
CarriesBound(s, b, e) ==
  /\ e < ept_count[s]
  /\ b < BlockCount
  /\ shmem[s][b].data = BoundMsg(e, ept[s][e].name)
  /\ shmem[s][b].size = BoundMsgLen(ept[s][e].name)
  /\ \A k \in b .. (b + BlocksNeeded(shmem[s][b].size) - 1) : tx_usage_bitmap[s][k]

\* C25: on receipt of RELEASE_BOUND for the TX block that carried endpoint
\* E's BOUND message, all blocks of that buffer (and no others) are freed in
\* the TX bitmap and the waiters are woken, endpoint E, the one whose address
\* is in the buffer, moves to BOUNDED, no other endpoint changes, and the
\* worker is scheduled; every RELEASE_BOUND of the peer is for such a block.
C25_ReleaseBound ==
  [][\A s \in Sides : \A b \in 0 .. 255 :
       TakesReleaseBound(s, b) =>
         \E e \in 0 .. (NUM_EP - 1) :
           /\ CarriesBound(s, b, e)
           /\ \A k \in Blocks :
                tx_usage_bitmap'[s][k] =
                  (tx_usage_bitmap[s][k]
                     /\ ~(k >= b /\ k < b + BlocksNeeded(shmem[s][b].size)))
           /\ block_wait_sem'[s] = 1
           /\ ept'[s] = [ept[s] EXCEPT ![e].state = EPT_BOUNDED]
           /\ work'[s].queued]_vars

\* the BOUND message of the longer name, two blocks, was released on side 0:
\* its endpoint is BOUNDED, the last registered, and no TX block is in use
C25_Witness ==
  /\ ept_count[0] = 2
  /\ ept[0][1].name = LongName /\ ept[0][1].state = EPT_BOUNDED
  /\ NumBlocks(BoundMsgLen(LongName)) = 2
  /\ PopCount(tx_usage_bitmap[0]) = 0
  /\ work[0].queued

(***************************************************************************)
(* Properties of the addresses (SpecPrefix)                                *)
(***************************************************************************)
\* the address side s gave to its endpoint of that name, or -1
LocalAddrOf(s, name) ==
  LET hits == {f \in 0 .. (ept_count[s] - 1) : ept[s][f].name = name}
  IN IF hits = {} THEN -1 ELSE CHOOSE f \in hits : TRUE

\* the names registered on each side are distinct
UniqueNames ==
  \A s \in Sides : \A e, f \in 0 .. (ept_count[s] - 1) :
    ept[s][e].name = ept[s][f].name => e = f

\* C26: whenever an endpoint is READY on a side, its remote address is the
\* local address the peer gave to its endpoint of the same name (the peer is
\* well-behaved and the names are unique per side).
C26_RemoteAddr ==
  /\ UniqueNames
  /\ \A s \in Sides : \A e \in 0 .. (ept_count[s] - 1) :
       ept[s][e].state = EPT_READY =>
         ept[s][e].remote_addr = LocalAddrOf(Peer(s), ept[s][e].name)

\* all four endpoints are READY and the sides registered in opposite orders,
\* so that every remote address differs from the local one
C26_Witness ==
  /\ \A s \in Sides :
       /\ ept_count[s] = 2
       /\ \A e \in 0 .. 1 : ept[s][e].state = EPT_READY /\ ept[s][e].remote_addr = 1 - e
  /\ ept[0][0].name = ept[1][1].name

(***************************************************************************)
(* Properties of the name comparison (SpecName, SpecPrefix)                *)
(***************************************************************************)
\* offset in the buffer of RX block b of the first zero byte after the address
FirstZero(s, b) ==
  LET d == shmem[Peer(s)][b].data
  IN CHOOSE k \in 1 .. (Len(d) + 1) :
       ByteAt(d, k) = 0 /\ \A j \in 1 .. (k - 1) : ByteAt(d, j) # 0

\* the received name: the bytes after the address up to the first zero
ReceivedName(s, b) ==
  [j \in 1 .. (FirstZero(s, b) - 1) |-> shmem[Peer(s)][b].data[j + 1]]

\* the name's terminator lies inside the blocks area
TerminatedInArea(s, b) ==
  b * BlockSize + BLOCK_HEADER_SIZE + FirstZero(s, b) < BlockCount * BlockSize

\* the worker of side s matches, on this step, the message of slot i
Matches(s, i) ==
  /\ work[s].pc # "rel_send" /\ work'[s].pc = "rel_send" /\ work'[s].i = i

\* the endpoint of that name gets the address of the message in block b
RecordedFor(s, b, name) ==
  \E e \in 0 .. (ept_count[s] - 1) :
    /\ ept[s][e].name = name
    /\ ept'[s][e].remote_addr = ByteAt(shmem[Peer(s)][b].data, 0)

\* C27: a received BOUND message matches a registered endpoint only if the
\* received name, up to its terminator, is identical to the registered name;
\* a prefix or an extension of a registered name does not match, and a name
\* with no terminator before the end of the RX blocks area matches nothing.
C27_ExactMatch ==
  [][\A s \in Sides : \A i \in 0 .. (NUM_EP - 1) :
       Matches(s, i) =>
         /\ TerminatedInArea(s, waiting_bound_msg[s][i])
         /\ RecordedFor(s, waiting_bound_msg[s][i],
                        ReceivedName(s, waiting_bound_msg[s][i]))]_vars

\* C27 for the names that have a terminator inside the area
C27_ExactMatchTerminated ==
  [][\A s \in Sides : \A i \in 0 .. (NUM_EP - 1) :
       Matches(s, i) /\ TerminatedInArea(s, waiting_bound_msg[s][i]) =>
         RecordedFor(s, waiting_bound_msg[s][i],
                     ReceivedName(s, waiting_bound_msg[s][i]))]_vars

\* C27: the comparison reads no byte beyond the blocks area: the name_size
\* bytes from the name's start end at the area's end at the latest
C27_NoReadBeyond ==
  \A s \in Sides : \A i \in 0 .. (NUM_EP - 1) :
    waiting_bound_msg[s][i] # WAITING_BOUND_MSG_EMPTY =>
      LET b == waiting_bound_msg[s][i]
          start == b * BlockSize + BLOCK_HEADER_SIZE + 1
          name_size == strnlen(BytesFrom(shmem[Peer(s)][b].data, 1),
                               BlockCount * BlockSize - start - 1) + 1
      IN start + name_size <= BlockCount * BlockSize

(***************************************************************************)
(* Properties of the worker (SpecBondFail)                                 *)
(***************************************************************************)
\* side s has no CONFIGURED endpoint, no BOUNDED endpoint with a known remote
\* address and no pending BOUND message with a registered name
NothingToDo(s) ==
  /\ \A e \in 0 .. (ept_count[s] - 1) :
       /\ ept[s][e].state # EPT_CONFIGURED
       /\ ~(ept[s][e].state = EPT_BOUNDED /\ ept[s][e].remote_addr # EPT_ADDR_INVALID)
  /\ \A i \in 0 .. (NUM_EP - 1) : ~Matchable(s, i)

\* the handler of side s returns on this step with an error
RunEndsWithError(s) ==
  work[s].pc # "idle" /\ work'[s].pc = "idle" /\ work[s].r < 0

\* C28: a worker run that starts with nothing to do sends no notification,
\* calls no bound callback, leaves the endpoint table, the pending table and
\* the TX bitmap as they are, and ends; a run that ends with an error
\* schedules another run.
C28_WorkerIdempotent ==
  [][\A s \in Sides :
       /\ RunStarts(s) /\ NothingToDo(s) =>
            /\ icmsg'[s] = icmsg[s]
            /\ log'[s].bound_cb = log[s].bound_cb
            /\ ept'[s] = ept[s] /\ ept_count'[s] = ept_count[s]
            /\ waiting_bound_msg'[s] = waiting_bound_msg[s]
            /\ tx_usage_bitmap'[s] = tx_usage_bitmap[s]
            /\ work'[s] = WorkIdle
       /\ RunEndsWithError(s) => work'[s].queued]_vars

\* the BOUND send of side 0's only endpoint failed, the run that the error
\* scheduled has come and gone with nothing to do (side 1 has no endpoint)
C28_Witness ==
  /\ work[0] = WorkIdle /\ icmsg_bounded[0]
  /\ ept_count[0] = 1 /\ ept[0][0].state = EPT_UNCONFIGURED
  /\ ept_count[1] = 0

(***************************************************************************)
(* The instance mutex.  The places where the backend locks and unlocks     *)
(* dev_data->mutex, for three contexts of one side: an application thread  *)
(* (send, register_ept), the workqueue (ept_bound_process) and the ICMsg   *)
(* callback context (bound, received).  The data that selects a branch is  *)
(* left out: a context takes any branch the code has.  A context is at     *)
(*   "idle"        outside the backend,                                    *)
(*   "alloc"       in alloc_tx_buffer with K_FOREVER,                      *)
(*   "send"        at k_mutex_lock of icmsg_send_wrapper,                  *)
(*   "icmsg_send"  inside icmsg_send,                                      *)
(*   "sent"        back from icmsg_send_wrapper with its r,                *)
(*   "lock"        at k_mutex_lock of a handler,                           *)
(*   "locked"      between k_mutex_lock and k_mutex_unlock of a handler,   *)
(*   "run"         in ept_bound_process with the mutex locked,             *)
(*   "cb"          inside the bound callback of the endpoint,              *)
(*   "relock"      at k_mutex_lock after a send or the callback.           *)
(* free counts the free TX blocks, pending the blocks the peer has not     *)
(* released yet; link is what icmsg_send returned to the context, r what   *)
(* its caller got.                                                         *)
(***************************************************************************)
\* operations started in the mutex model
MutexOps == 4

\* what icmsg_send may return
LinkReturns == {0, LinkResult(FALSE), -ENOMEM}

\* k_mutex_lock that returns without taking the mutex
k_mutex_lock_none(m, c) == m

k_mutex_lock(m, c) == [m EXCEPT !.owner = c]

k_mutex_unlock(m) == [m EXCEPT !.owner = "none"]

\* the worker's step without the k_mutex_unlock before it
WorkerStep_locked(m, next, what) ==
  [m EXCEPT !.pc["work"] = next, !.what["work"] = what]

\* ept_bound_process leaves the locked part: k_mutex_unlock, then the send,
\* the callback or the return
WorkerStep(m, next, what) ==
  k_mutex_unlock([m EXCEPT !.pc["work"] = next, !.what["work"] = what])

MutexStep(m) == mutex' = m /\ UNCHANGED <<backendVars, fifo, conf, ram>>

\* icmsg_send_wrapper: k_mutex_lock returns and icmsg_send is entered
WrapperLock(c) ==
  /\ mutex.pc[c] = "send"
  /\ mutex.owner = "none"
  /\ MutexStep(k_mutex_lock([mutex EXCEPT !.pc[c] = "icmsg_send"], c))

\* icmsg_send_wrapper: icmsg_send returns r, k_mutex_unlock, return r
WrapperReturn(c) ==
  /\ mutex.pc[c] = "icmsg_send"
  /\ \E r \in LinkReturns :
       MutexStep(k_mutex_unlock([mutex EXCEPT !.link[c] = r, !.r[c] = r,
                                              !.pc[c] = "sent"]))

\* send: get_tx_buffer is entered
AppSend ==
  /\ mutex.pc["app"] = "idle"
  /\ mutex.n < MutexOps
  /\ MutexStep([mutex EXCEPT !.pc["app"] = "alloc", !.what["app"] = "data",
                             !.n = @ + 1])

\* register_ept is entered
AppRegister ==
  /\ mutex.pc["app"] = "idle"
  /\ mutex.n < MutexOps
  /\ MutexStep([mutex EXCEPT !.pc["app"] = "lock", !.what["app"] = "none",
                             !.n = @ + 1])

\* alloc_tx_buffer with K_FOREVER returns when it got blocks
MutexAlloc(c) ==
  /\ mutex.pc[c] = "alloc"
  /\ mutex.free > 0
  /\ MutexStep([mutex EXCEPT !.free = @ - 1, !.pc[c] = "send"])

\* send_block and send_release after icmsg_send_wrapper: a failed send of a
\* block releases it, a sent block waits for the peer's release; r is returned
MutexSent(c) ==
  /\ mutex.pc[c] = "sent"
  /\ LET m1 == IF mutex.what[c] = "release" THEN mutex
               ELSE IF mutex.r[c] < 0
               THEN [mutex EXCEPT !.free = @ + 1]
               ELSE [mutex EXCEPT !.pending = @ + 1]
     IN MutexStep([m1 EXCEPT !.pc[c] = IF c = "work" THEN "relock" ELSE "idle"])

\* received with a release message: release_tx_blocks runs without the mutex;
\* received_release_bound then locks it
RxRelease ==
  /\ mutex.pc["rx"] = "idle"
  /\ mutex.pending > 0
  /\ \E next \in {"idle", "lock"} :
       MutexStep([mutex EXCEPT
                    !.free = @ + 1, !.pending = @ - 1,
                    !.waited = @ \/ (mutex.pc["work"] = "alloc" /\ mutex.free = 0),
                    !.what["rx"] = "none", !.pc["rx"] = next])

\* bound, or received with MSG_BOUND: the handler reaches k_mutex_lock
RxBound ==
  /\ mutex.pc["rx"] = "idle"
  /\ mutex.n < MutexOps
  /\ MutexStep([mutex EXCEPT !.pc["rx"] = "lock", !.what["rx"] = "none",
                             !.n = @ + 1])

\* received_data: the received callback returned without holding the buffer,
\* send_release is called
RxData ==
  /\ mutex.pc["rx"] = "idle"
  /\ mutex.n < MutexOps
  /\ MutexStep([mutex EXCEPT !.pc["rx"] = "send", !.what["rx"] = "release",
                             !.n = @ + 1])

\* k_mutex_lock of bound, received_bound, received_release_bound, register_ept
HandlerLock(c) ==
  /\ c # "work"
  /\ mutex.pc[c] = "lock"
  /\ mutex.owner = "none"
  /\ MutexStep(k_mutex_lock([mutex EXCEPT !.pc[c] = "locked"], c))

\* the end of these handlers: k_mutex_unlock, schedule_ept_bound_process
HandlerUnlock(c) ==
  /\ mutex.pc[c] = "locked"
  /\ MutexStep(k_mutex_unlock([mutex EXCEPT !.pc[c] = "idle", !.queued = TRUE]))

\* ept_bound_process is started by the workqueue and locks the mutex
MutexWorkerStart ==
  /\ mutex.pc["work"] = "idle"
  /\ mutex.queued
  /\ mutex.owner = "none"
  /\ MutexStep(k_mutex_lock([mutex EXCEPT !.pc["work"] = "run", !.r["work"] = 0,
                                          !.queued = FALSE], "work"))

\* ept_bound_process under the mutex: after a failed send it leaves and is
\* submitted again; else it finds a matching message (send_release), a
\* CONFIGURED endpoint (send_bound_message), a BOUNDED endpoint (callback) or
\* nothing
MutexWorkerRun ==
  /\ mutex.pc["work"] = "run"
  /\ IF mutex.r["work"] < 0
     THEN MutexStep(WorkerStep([mutex EXCEPT !.queued = TRUE], "idle", "none"))
     ELSE \/ MutexStep(WorkerStep(mutex, "idle", "none"))
          \/ /\ mutex.n < MutexOps
             /\ \E br \in {<<"send", "release">>, <<"alloc", "bound">>,
                           <<"cb", "none">>} :
                  MutexStep(WorkerStep([mutex EXCEPT !.n = @ + 1], br[1], br[2]))

\* the bound callback returns
MutexWorkerCb ==
  /\ mutex.pc["work"] = "cb"
  /\ MutexStep([mutex EXCEPT !.pc["work"] = "relock"])

\* k_mutex_lock after send_release, send_bound_message or the callback
MutexWorkerRelock ==
  /\ mutex.pc["work"] = "relock"
  /\ mutex.owner = "none"
  /\ MutexStep(k_mutex_lock([mutex EXCEPT !.pc["work"] = "run"], "work"))

NextMutex ==
  \/ AppSend \/ AppRegister \/ RxRelease \/ RxBound \/ RxData
  \/ \E c \in MutexCtx : WrapperLock(c)
  \/ \E c \in MutexCtx : WrapperReturn(c)
  \/ \E c \in MutexCtx : MutexAlloc(c)
  \/ \E c \in MutexCtx : MutexSent(c)
  \/ \E c \in MutexCtx : HandlerLock(c)
  \/ \E c \in MutexCtx : HandlerUnlock(c)
  \/ MutexWorkerStart \/ MutexWorkerRun \/ MutexWorkerCb \/ MutexWorkerRelock

SpecMutex == InitBackend /\ [][NextMutex]_vars

\* the steps of a call that is under way (the calls themselves start when the
\* application, the workqueue's submitter or the peer decides)
MutexProgress ==
  \/ RxRelease
  \/ \E c \in MutexCtx :
       \/ WrapperLock(c) \/ WrapperReturn(c) \/ MutexAlloc(c) \/ MutexSent(c)
       \/ HandlerLock(c) \/ HandlerUnlock(c)
  \/ MutexWorkerStart \/ MutexWorkerRun \/ MutexWorkerCb \/ MutexWorkerRelock

\* the kernel runs a context that is ready: while some call under way has a
\* step to take, one of them is taken
FairMutex == WF_vars(MutexProgress)

SpecMutexLive == SpecMutex /\ FairMutex

(***************************************************************************)
(* C29                                                                     *)
(***************************************************************************)
InLink == {c \in MutexCtx : mutex.pc[c] = "icmsg_send"}

\* C29: a context inside icmsg_send owns the instance mutex, so at most one
\* context is inside icmsg_send at a time; and what icmsg_send returned is
\* what the caller of the send path has as its result
C29_SerializedSend ==
  /\ \A c \in InLink : mutex.owner = c
  /\ Cardinality(InLink) <= 1
  /\ \A c \in MutexCtx : mutex.pc[c] = "sent" => mutex.r[c] = mutex.link[c]

\* an application send came back with the link's error while the worker is
\* inside icmsg_send and the receive handler waits for the mutex to send
C29_Witness ==
  /\ mutex.pc["work"] = "icmsg_send"
  /\ mutex.pc["rx"] = "send"
  /\ mutex.pc["app"] = "sent" /\ mutex.r["app"] = -ENOMEM

(***************************************************************************)
(* C30                                                                     *)
(***************************************************************************)
\* the worker owns the mutex only in its locked part and inside icmsg_send,
\* where icmsg_send_wrapper has locked it
WorkerUnlocked ==
  mutex.owner = "work" => mutex.pc["work"] \in {"run", "icmsg_send"}

\* C30: the worker does not own the mutex while it waits for TX blocks, waits
\* for the mutex of the send path or is inside the bound callback; a receive
\* handler that has started runs to completion; and while the worker waits
\* for blocks that the peer has still to release, a block gets free or the
\* worker gets on
C30_WorkerUnlocked ==
  /\ []WorkerUnlocked
  /\ (mutex.pc["rx"] # "idle") ~> (mutex.pc["rx"] = "idle")
  /\ (mutex.pc["work"] = "alloc" /\ mutex.free = 0 /\ mutex.pending > 0)
       ~> (mutex.free > 0 \/ mutex.pc["work"] # "alloc")

\* C30 as stated: the worker never owns the mutex in a TX allocation, in a
\* link send or inside the bound callback
C30_NeverInLinkSend ==
  mutex.owner = "work" => mutex.pc["work"] \notin {"alloc", "icmsg_send", "cb"}

\* the worker waited for a block, the receive handler released one meanwhile
\* and the worker is sending its bound message
C30_Witness ==
  /\ mutex.waited
  /\ mutex.pc["work"] = "icmsg_send" /\ mutex.what["work"] = "bound"

(***************************************************************************)
(* C31                                                                     *)
(***************************************************************************)
\* a step of side s puts a BOUND notification on the link
SendsBound(s) ==
  /\ Len(icmsg'[s]) = Len(icmsg[s]) + 1
  /\ icmsg'[s][Len(icmsg'[s])][1] = MSG_BOUND

\* C31: a step in which a side takes a notification from the link (the
\* handlers of BOUND and RELEASE_BOUND) allocates no TX block of that side,
\* puts nothing on the link and leaves the worker where it is; when the
\* notification is a valid BOUND or a RELEASE_BOUND of a registered endpoint
\* the worker is submitted; and a BOUND notification is put on the link only
\* by the worker's send_bound_message
C31_HandlersDefer ==
  [][\A s \in Sides :
       /\ TakesHead(s) =>
            /\ \A b \in Blocks : tx_usage_bitmap'[s][b] => tx_usage_bitmap[s][b]
            /\ icmsg'[s] = icmsg[s]
            /\ work'[s].pc = work[s].pc
            /\ thr'[s] = thr[s]
       /\ TakesBound(s) => work'[s].queued
       /\ (\E b \in Blocks : \E e \in 0 .. (NUM_EP - 1) :
             TakesReleaseBound(s, b) /\ CarriesBound(s, b, e) /\ e < ept_count[s])
            => work'[s].queued
       /\ SendsBound(s) => work[s].pc = "bound_send" /\ work'[s].pc = "bound_done"]_vars

\* both handlers have run on side 0: a BOUND of the peer is stored, an endpoint
\* is BOUNDED and the worker is submitted
C31_Witness ==
  /\ \E i \in 0 .. (NUM_EP - 1) : waiting_bound_msg[0][i] # WAITING_BOUND_MSG_EMPTY
  /\ \E e \in 0 .. (NUM_EP - 1) : ept[0][e].state = EPT_BOUNDED
  /\ work[0].queued

(***************************************************************************)
(* Buffer pointers.  An address is a number below SIZE_MOD; both channels  *)
(* have their blocks area at BlocksPtr of their own region.  SpecPointer:  *)
(* side 0 holds one TX buffer, the other headers of its region and the     *)
(* headers of the peer's region hold any size, and the application calls   *)
(* drop_tx_buffer and hold_rx_buffer with any pointer.                     *)
(***************************************************************************)
\* ch_conf->blocks_ptr
BlocksPtr == 16

NULL == -1

\* block_from_index
block_from_index(block_index) == (BlocksPtr + block_index * BlockSize) % SIZE_MOD

\* buffer_from_index_validate: block->data, or NULL
buffer_from_index_validate(mem, block_index, check_size) ==
  IF block_index >= BlockCount THEN NULL
  ELSE IF check_size /\ ~ValidBlock(mem, block_index) THEN NULL
  ELSE (block_from_index(block_index) + BLOCK_HEADER_SIZE) % SIZE_MOD

\* the conversion without the comparison of expected with buffer
buffer_to_index_floor(mem, buffer, check_size) ==
  LET block_index == ((buffer - BlocksPtr) % SIZE_MOD) \div BlockSize
  IN IF buffer_from_index_validate(mem, block_index, check_size) = NULL
     THEN -EINVAL ELSE ToInt(block_index)

\* buffer_to_index_validate: the difference of the pointers is divided as a
\* size_t, the result is returned as an int
buffer_to_index_validate(mem, buffer, check_size) ==
  LET block_index == ((buffer - BlocksPtr) % SIZE_MOD) \div BlockSize
      expected == buffer_from_index_validate(mem, block_index, check_size)
  IN IF expected = NULL \/ expected # buffer THEN -EINVAL ELSE ToInt(block_index)

\* header sizes that memory may hold before the backend wrote them: the
\* largest size that fits from some block, and one more
PointerSizes ==
  {k * BlockSize - BLOCK_HEADER_SIZE + d : k \in 1 .. BlockCount, d \in {0, 1}}

\* every address
Pointers == 0 .. (SIZE_MOD - 1)

\* calls with a pointer
PointerCalls == 1

\* backend_init; the shared memory holds what it held before
InitPointer ==
  /\ tx_usage_bitmap = [s \in Sides |-> [b \in Blocks |-> FALSE]]
  /\ rx_hold_bitmap = [s \in Sides |-> [b \in Blocks |-> FALSE]]
  /\ \E size \in PointerSizes :
       shmem = [s \in Sides |-> [b \in Blocks |-> [size |-> size, data |-> <<>>]]]
  /\ block_wait_sem = [s \in Sides |-> 0]
  /\ ept = [s \in Sides |-> [e \in 0 .. (NUM_EP - 1) |-> EptEmpty]]
  /\ ept_count = [s \in Sides |-> 0]
  /\ waiting_bound_msg = [s \in Sides |->
                            [e \in 0 .. (NUM_EP - 1) |-> WAITING_BOUND_MSG_EMPTY]]
  /\ icmsg_bounded = [s \in Sides |-> FALSE]
  /\ work = [s \in Sides |-> WorkIdle]
  /\ icmsg = [s \in Sides |-> <<>>]
  /\ thr = [s \in Sides |-> [t \in Threads |-> ThrIdle]]
  /\ rxh = [s \in Sides |-> RxIdle]
  /\ log = [s \in Sides |-> LogEmpty] /\ fifo = FifoInit(0) /\ mutex = MutexInit /\ conf = NoConf /\ ram = NoRam

\* drop_tx_buffer(data): release_tx_buffer(data, -1) up to k_sem_give
DropPointer(s, t, buffer) ==
  /\ thr[s][t].pc = "idle"
  /\ log[s].call.n < PointerCalls
  /\ LET tx_block_index == buffer_to_index_validate(shmem[s], buffer, TRUE)
         rel == IF tx_block_index < 0
                THEN [r |-> tx_block_index, bm |-> tx_usage_bitmap[s],
                      mem |-> shmem[s], give |-> FALSE]
                ELSE release_tx_blocks(tx_usage_bitmap[s], shmem[s], tx_block_index,
                                       shmem[s][tx_block_index].size, -1)
     IN /\ tx_usage_bitmap' = [tx_usage_bitmap EXCEPT ![s] = rel.bm]
        /\ shmem' = [shmem EXCEPT ![s] = rel.mem]
        /\ thr' = [thr EXCEPT
                     ![s][t].pc = IF rel.give THEN "rel_give" ELSE "idle",
                     ![s][t].op = "drop", ![s][t].r = rel.r,
                     ![s][t].buf = IF rel.r >= 0 /\ rel.r = thr[s][t].buf.idx
                                   THEN NoBuf ELSE @]
        /\ log' = [log EXCEPT ![s].call =
                     [op |-> "drop", buffer |-> buffer, check |-> TRUE,
                      index |-> tx_block_index, n |-> @.n + 1]]
  /\ UNCHANGED <<rx_hold_bitmap, block_wait_sem, eptVars, icmsg, rxh, fifo, mutex, conf, ram>>

\* hold_rx_buffer(data); a negative index fails the assertion or, converted
\* to size_t, is refused by sys_bitarray_set_bit
HoldPointer(s, buffer) ==
  /\ log[s].call.n < PointerCalls
  /\ LET rx_block_index == buffer_to_index_validate(shmem[Peer(s)], buffer, FALSE)
     IN /\ rx_hold_bitmap' = [rx_hold_bitmap EXCEPT ![s] =
                                IF rx_block_index < 0 THEN @
                                ELSE set_bit(@, rx_block_index)]
        /\ log' = [log EXCEPT ![s].call =
                     [op |-> "hold", buffer |-> buffer, check |-> FALSE,
                      index |-> rx_block_index, n |-> @.n + 1]]
  /\ UNCHANGED <<tx_usage_bitmap, shmem, block_wait_sem, eptVars, icmsg, thr, rxh,
                 fifo, mutex, conf, ram>>

NextPointer ==
  \/ \E size \in {1, BlockSize} : get_tx_buffer(0, 1, size)
  \/ \E buffer \in Pointers : DropPointer(0, 1, buffer)
  \/ \E buffer \in Pointers : HoldPointer(0, buffer)
  \/ ReleaseGive(0, 1)

SpecPointer == InitPointer /\ [][NextPointer]_vars

(***************************************************************************)
(* C32                                                                     *)
(***************************************************************************)
\* the channel whose blocks the call is about
CallRegion(s) == IF log'[s].call.op = "hold" THEN Peer(s) ELSE s

\* address of the data of block i
DataStart(i) == BlocksPtr + i * BlockSize + BLOCK_HEADER_SIZE

\* the size in the header of block i of region g leaves the buffer inside
\* the blocks area
SizeInBounds(g, i) ==
  BlocksPtr + i * BlockSize + BLOCK_HEADER_SIZE + shmem[g][i].size
    <= BlocksPtr + BlockCount * BlockSize

\* C32: a call with pointer p gets index i from buffer_to_index_validate if
\* and only if i is a block of the channel, p is the address of the data of
\* block i and, when the size is asked for, the size in the header of block
\* i is in bounds; for every other pointer it gets -EINVAL
C32_BufferToIndex ==
  [][\A s \in Sides :
       log'[s].call.n # log[s].call.n =>
         LET c == log'[s].call
             good == {i \in Blocks :
                        /\ c.buffer = DataStart(i)
                        /\ c.check => SizeInBounds(CallRegion(s), i)}
         IN /\ \A i \in Blocks : (c.index = i) <=> (i \in good)
            /\ c.index \in Blocks \/ c.index = -EINVAL]_vars

\* drop_tx_buffer was given the pointer get_tx_buffer had returned, the data
\* start of block 0: the index is 0 and the buffer is released
C32_Witness ==
  /\ log[0].call.op = "drop"
  /\ log[0].call.buffer = DataStart(0) /\ log[0].call.index = 0
  /\ thr[0][1].op = "drop" /\ thr[0][1].r = 0 /\ thr[0][1].buf = NoBuf

\* a pointer one byte after the data start of block 0 got -EINVAL
C32_WitnessInside ==
  /\ log[0].call.buffer = DataStart(0) + 1
  /\ log[0].call.index = -EINVAL

(***************************************************************************)
(* Block geometry.  The macros of DEFINE_BACKEND_DEVICE are evaluated in   *)
(* size_t arithmetic (ICMSG_BUFFER_OVERHEAD is a sizeof expression), 32    *)
(* bits wide on the target; a size_t is kept as <<high, low>> halves of 16 *)
(* bits.  The devicetree gives the size of the two regions and the number  *)
(* of blocks in each; region s is the TX region of side s and the RX       *)
(* region of its peer.                                                     *)
(***************************************************************************)
Half == Pow2(16)

\* 2 * (sizeof(struct spsc_pbuf) + BYTES_PER_ICMSG_MESSAGE)
BYTES_PER_ICMSG_MESSAGE == 8
ICMSG_BUFFER_OVERHEAD == 48

\* the size_t of a number below 2^31
SizeT(n) == <<n \div Half, n % Half>>

\* a - b of two numbers below 2^31, as a size_t
SizeSub(a, b) ==
  IF a >= b THEN SizeT(a - b)
  ELSE <<Half - 1 - ((b - a - 1) \div Half), Half - 1 - ((b - a - 1) % Half)>>

\* v / n for n up to 2^15
SizeDiv(v, n) == <<v[1] \div n, ((v[1] % n) * Half + v[2]) \div n>>

\* v * n for n up to 2^15
SizeMul(v, n) == <<(v[1] * n + (v[2] * n) \div Half) % Half, (v[2] * n) % Half>>

\* a - b of two size_t
SizeMinus(a, b) ==
  <<(a[1] - b[1] - (IF a[2] < b[2] THEN 1 ELSE 0)) % Half, (a[2] - b[2]) % Half>>

SizeLess(a, b) == a[1] < b[1] \/ (a[1] = b[1] /\ a[2] < b[2])

\* ROUND_DOWN(v, align), align a power of two
ROUND_DOWN(v, align) == <<v[1], v[2] - (v[2] % align)>>

\* the minimum without the messages of the remote blocks
GET_ICMSG_MIN_SIZE_local(local_blocks, remote_blocks) ==
  ICMSG_BUFFER_OVERHEAD + BYTES_PER_ICMSG_MESSAGE * local_blocks

GET_ICMSG_MIN_SIZE(local_blocks, remote_blocks) ==
  ICMSG_BUFFER_OVERHEAD + BYTES_PER_ICMSG_MESSAGE * (local_blocks + remote_blocks)

GET_BLOCK_SIZE(total_size, local_blocks, remote_blocks) ==
  ROUND_DOWN(SizeDiv(SizeSub(total_size,
                             GET_ICMSG_MIN_SIZE(local_blocks, remote_blocks)),
                     local_blocks),
             BLOCK_ALIGNMENT)

GET_BLOCKS_OFFSET(total_size, local_blocks, remote_blocks) ==
  SizeMinus(SizeT(total_size),
            SizeMul(GET_BLOCK_SIZE(total_size, local_blocks, remote_blocks),
                    local_blocks))

\* the channel of region g seen from the side for which it has loc blocks
ChannelConfig(dt, g, loc, rem) ==
  [blocks_offset |-> GET_BLOCKS_OFFSET(dt.size[g], loc, rem),
   block_count |-> loc,
   block_size |-> GET_BLOCK_SIZE(dt.size[g], loc, rem)]

\* the BUILD_ASSERTs of DEFINE_BACKEND_DEVICE on one channel
ChannelAccepted(dt, g, loc, rem) ==
  /\ SizeLess(SizeT(BLOCK_ALIGNMENT), GET_BLOCK_SIZE(dt.size[g], loc, rem))
  /\ SizeLess(GET_BLOCK_SIZE(dt.size[g], loc, rem), SizeT(dt.size[g]))
  /\ loc <= 256

\* region sizes and block counts the devicetree may give
GeomMaxSize == 128
GeomBlocks == 2
GeomSizes == 0 .. GeomMaxSize \cup {6191, 6192, Pow2(30)}
GeomCounts == 1 .. GeomBlocks \cup {256, 257}
DeviceTrees ==
  {[size |-> [g \in Sides |-> IF g = 0 THEN t ELSE u], blocks |-> b] :
     t \in GeomSizes, u \in {GeomMaxSize, Pow2(30)}, b \in [Sides -> GeomCounts]}

\* DEFINE_BACKEND_DEVICE on side s; the peer is built from the same devicetree
DEFINE_BACKEND_DEVICE(s, dt) ==
  /\ ~conf[s].built
  /\ conf[Peer(s)].built => dt = conf[Peer(s)].dt
  /\ conf' = [conf EXCEPT ![s] =
       [built |-> TRUE, dt |-> dt,
        ok |-> /\ ChannelAccepted(dt, s, dt.blocks[s], dt.blocks[Peer(s)])
               /\ ChannelAccepted(dt, Peer(s), dt.blocks[Peer(s)], dt.blocks[s]),
        tx |-> ChannelConfig(dt, s, dt.blocks[s], dt.blocks[Peer(s)]),
        rx |-> ChannelConfig(dt, Peer(s), dt.blocks[Peer(s)], dt.blocks[s])]]
  /\ UNCHANGED <<backendVars, fifo, mutex, ram>>

NextGeometry == \E s \in Sides : \E dt \in DeviceTrees : DEFINE_BACKEND_DEVICE(s, dt)

SpecGeometry == InitBackend /\ [][NextGeometry]_vars

(***************************************************************************)
(* C33                                                                     *)
(***************************************************************************)
\* the geometry ch of a region of total_size bytes with the given number of
\* blocks on both sides: as numbers, without wrapping
GoodGeometry(ch, total_size, local_blocks, remote_blocks) ==
  /\ ch.block_size[1] < Half \div 2 /\ ch.blocks_offset[1] < Half \div 2
  /\ LET block_size == ch.block_size[1] * Half + ch.block_size[2]
         blocks_offset == ch.blocks_offset[1] * Half + ch.blocks_offset[2]
     IN /\ block_size % BLOCK_ALIGNMENT = 0
        /\ block_size > BLOCK_ALIGNMENT
        /\ block_size <= total_size \div local_blocks
        /\ blocks_offset + block_size * local_blocks = total_size
        /\ blocks_offset >= ICMSG_BUFFER_OVERHEAD
                            + BYTES_PER_ICMSG_MESSAGE * (local_blocks + remote_blocks)

\* C33: when the build-time checks accept a device, the block size of each
\* channel is a multiple of the alignment unit and larger than one unit, the
\* blocks area ends exactly at the end of its region, the link area before
\* it has at least overhead + bytes per notification * (local + remote
\* blocks) bytes, and the TX channel of a side is the RX channel of its peer
C33_Geometry ==
  \A s \in Sides :
    conf[s].built /\ conf[s].ok =>
      /\ GoodGeometry(conf[s].tx, conf[s].dt.size[s],
                      conf[s].dt.blocks[s], conf[s].dt.blocks[Peer(s)])
      /\ GoodGeometry(conf[s].rx, conf[s].dt.size[Peer(s)],
                      conf[s].dt.blocks[Peer(s)], conf[s].dt.blocks[s])
      /\ conf[Peer(s)].built =>
           /\ conf[Peer(s)].ok
           /\ conf[s].tx = conf[Peer(s)].rx /\ conf[s].rx = conf[Peer(s)].tx

\* both sides are built and accepted, with two blocks in region 0 whose size
\* was rounded down, so that the link area is larger than its minimum
C33_Witness ==
  /\ conf[0].built /\ conf[0].ok /\ conf[1].built
  /\ conf[0].tx.block_count = 2
  /\ SizeLess(SizeT(GET_ICMSG_MIN_SIZE(2, conf[0].dt.blocks[1])),
              conf[0].tx.blocks_offset)

\* a region smaller than the link area's minimum was refused
C33_WitnessRefused ==
  /\ conf[0].built /\ ~conf[0].ok
  /\ conf[0].dt.size[0] < GET_ICMSG_MIN_SIZE(conf[0].dt.blocks[0], conf[0].dt.blocks[1])


(***************************************************************************)
(* SpecCache: the data cache between the sender and the shared memory.     *)
(* shmem is what the sending CPU reads and writes (its cache), ram is what *)
(* the backing memory holds and the peer reads.  A write reaches ram only  *)
(* by sys_cache_data_flush_range: no line is evicted on its own, which is  *)
(* the case a write-back cache permits and the flush exists for.           *)
(***************************************************************************)
\* the byte count send_block passes to the flush: size + BLOCK_HEADER_SIZE
\* in size_t
FlushLen(size) == (size + BLOCK_HEADER_SIZE) % SIZE_MOD

\* sys_cache_data_flush_range(block, n) on the block at index idx: nothing
\* for n = 0; else the lines that hold bytes 0 .. n-1 of the block are
\* written back: the header word (one aligned word, so within one line) and
\* the first n - BLOCK_HEADER_SIZE bytes of the payload
sys_cache_data_flush_range(back, cpu, idx, n) ==
  IF n = 0 THEN back
  ELSE LET p == IF n > BLOCK_HEADER_SIZE THEN n - BLOCK_HEADER_SIZE ELSE 0
           top == Max(Len(back[idx].data), Min(p, Len(cpu[idx].data)))
       IN [back EXCEPT ![idx] =
             [size |-> cpu[idx].size,
              data |-> [k \in 1 .. top |->
                          IF k <= p THEN ByteAt(cpu[idx].data, k - 1)
                          ELSE back[idx].data[k]]]]

\* the flush of send_block (line 524): the header holds the final size and
\* the payload is written when the range is flushed; a failed send changes
\* no byte of the block afterwards, so the memory flushed is the one the
\* call leaves
FlushBlock(s, tx_block_index, size) ==
  ram' = [ram EXCEPT ![s] =
            sys_cache_data_flush_range(@, shmem'[s], tx_block_index, FlushLen(size))]

\* send with the cache: the block allocated is flushed by send_block
send_cached(s, t, e, len) ==
  /\ send_body(s, t, e, len)
  /\ LET a == alloc_tx_buffer(tx_usage_bitmap[s], shmem[s], len)
     IN IF a.r < 0 THEN UNCHANGED ram ELSE FlushBlock(s, a.r, len)

\* send_nocopy with the cache: send_block runs when release_tx_buffer has
\* returned the block index
send_nocopy_cached(s, t, e, len) ==
  /\ send_nocopy_body(s, t, e, len)
  /\ LET idx == thr[s][t].buf.idx
         mem1 == [shmem[s] EXCEPT ![idx].data =
                    memcpy(@, Payload(len), Min(len, thr[s][t].buf.size))]
         shr == release_tx_buffer(tx_usage_bitmap[s], mem1, idx, ToInt(len))
     IN IF shr.r < 0 THEN UNCHANGED ram ELSE FlushBlock(s, shr.r, len)

\* send_bound_message with the cache
send_bound_message_cached(s) ==
  /\ send_bound_message_body(s)
  /\ LET e == ept[s][work[s].i]
         a == sys_bitarray_alloc(tx_usage_bitmap[s], NumBlocks(BoundMsgLen(e.name)))
     IN IF a.r < 0 THEN UNCHANGED ram ELSE FlushBlock(s, a.offset, BoundMsgLen(e.name))

WorkerCached(s) ==
  \/ WorkerStart(s)
  \/ WorkerRelSend(s)
  \/ WorkerRelDone(s)
  \/ send_bound_message_cached(s)
  \/ WorkerBoundDone(s)
  \/ WorkerCb(s)

\* lengths of the zero-copy send: in the buffer, and the size_t values
\* around the one whose sum with the header size is 0
CacheLens == {1, BlockSize - BLOCK_HEADER_SIZE, INT_MAX + 1, SIZE_MOD - BLOCK_HEADER_SIZE}

\* side 0 sends on an endpoint that is READY and whose bound callback has
\* told the application so
SenderCached ==
  \E e \in 0 .. (ept_count[0] - 1) :
    /\ ept[0][e].state = EPT_READY /\ log[0].bound_cb[e] >= 1
    /\ \/ \E len \in {0, 1, BlockSize - BLOCK_HEADER_SIZE + 1} : send_cached(0, 1, e, len)
       \/ get_tx_buffer(0, 1, 1)
       \/ \E len \in CacheLens : send_nocopy_cached(0, 1, e, len)

NextCache ==
  \/ \E s \in Sides : IcmsgBound(s)
  \/ \E s \in Sides : register_ept(s, NameA)
  \/ \E s \in Sides : WorkerCached(s)
  \/ \E s \in Sides : ReceivedBonding(s)
  \/ SenderCached
  \/ Receiver
  \/ \E s \in Sides : ReceivedData(s)

InitCache ==
  /\ InitDevice
  /\ log = [s \in Sides |-> LogEmpty]
  /\ fifo = FifoInit(0) /\ mutex = MutexInit /\ conf = NoConf /\ ram = RamInit

SpecCache == InitCache /\ [][NextCache]_vars

\* the step puts the notification <<a, i>> of a data or BOUND message on the
\* link of side s
Announces(s, a, i) ==
  /\ icmsg'[s] = Append(icmsg[s], <<a, i>>)
  /\ a \notin {MSG_RELEASE_DATA, MSG_RELEASE_BOUND}

\* header and payload of the block at index i of side s are in the backing
\* memory
InBacking(back, cpu, i) ==
  /\ back[i].size = cpu[i].size
  /\ \A k \in 0 .. (Min(cpu[i].size, Len(cpu[i].data)) - 1) :
       ByteAt(back[i].data, k) = ByteAt(cpu[i].data, k)

\* C34: on every send path the payload and the final size are written and
\* flushed before the notification goes to the link: whenever a step puts
\* the notification of a data or BOUND message on the link, the header and
\* the payload of its block are in the backing memory.
C34_FlushedBeforeNotify ==
  [][\A s \in Sides : \A a \in 0 .. 255 : \A i \in Blocks :
       Announces(s, a, i) => InBacking(ram'[s], shmem'[s], i)]_vars

\* the same for the calls whose length fits the buffer they pass: send,
\* the BOUND message, and send_nocopy with len up to the size granted
C34_FlushedInRange ==
  [][\A s \in Sides : \A a \in 0 .. 255 : \A i \in Blocks :
       (Announces(s, a, i) /\ shmem'[s][i].size <= BlockCount * BlockSize)
         => InBacking(ram'[s], shmem'[s], i)]_vars

\* send_nocopy with len = SIZE_MOD - BLOCK_HEADER_SIZE has put its
\* notification on the link while the header in the backing memory still
\* holds another size
C34_StaleHeader ==
  \A i \in Blocks :
    (thr[0][1].op = "nocopy" /\ thr[0][1].r = 0
       /\ thr[0][1].size = SIZE_MOD - BLOCK_HEADER_SIZE
       /\ shmem[0][i].size = SIZE_MOD - BLOCK_HEADER_SIZE)
      => ram[0][i].size = shmem[0][i].size

\* a data message of one byte was sent and its block is in the backing memory
C34_Witness ==
  /\ thr[0][1].op = "send" /\ thr[0][1].r = 0 /\ thr[0][1].size = 1
  /\ \E i \in Blocks : shmem[0][i].size = 1 /\ ram[0][i] = shmem[0][i]


(***************************************************************************)
(* Properties of a held receive buffer (SpecData)                          *)
(***************************************************************************)
\* the TX blocks of side s that the buffer starting at block i covers, by
\* the size in its header
RunOf(s, i) == {b \in Blocks : i <= b /\ b < i + NumBlocks(shmem[s][i].size)}

\* side s has a RELEASE_DATA for block i on the link
ReleaseOnLink(s, i) ==
  \E k \in 1 .. Len(icmsg[s]) : icmsg[s][k] = <<MSG_RELEASE_DATA, i>>

\* the application of side s holds the buffer at block i: its callback has
\* called hold_rx_buffer and release_rx_buffer has not been called on it
HeldBy(s, i) == i \in rxh[s].bufs

\* release_rx_buffer of side s on the buffer at block i returns 0
ReleasesHeld(s, i) == i \in rxh[s].bufs /\ rxh'[s].bufs = rxh[s].bufs \ {i}

\* side s takes the RELEASE_DATA of the buffer at block i, which its peer
\* held and released, and the send of that buffer is the only call its
\* application has made: every block set is a block of that buffer
TakesLastHeld(s, i) ==
  /\ TakesHead(s)
  /\ log[s].ops = 1
  /\ icmsg[Peer(s)] = <<<<MSG_RELEASE_DATA, i>>>>
  /\ icmsg[s] = <<>>
  /\ rxh[Peer(s)].pc = "idle" /\ rxh[Peer(s)].bufs = {}
  /\ rxh[Peer(s)].held /\ rxh[Peer(s)].idx = i
  /\ \A t \in Threads : thr[s][t].pc = "idle" /\ thr[s][t].buf = NoBuf

\* while the buffer is held no RELEASE_DATA for it is sent and the sender's
\* blocks stay set; release_rx_buffer sends one RELEASE_DATA with the first
\* block index
HeldReserved ==
  \A s \in Sides : \A i \in Blocks :
    /\ HeldBy(s, i) =>
         /\ ~ReleaseOnLink(s, i)
         /\ \A b \in RunOf(Peer(s), i) : tx_usage_bitmap[Peer(s)][b]
         /\ HeldBy(s, i)' => \A b \in RunOf(Peer(s), i) : tx_usage_bitmap'[Peer(s)][b]
    /\ ReleasesHeld(s, i) =>
         icmsg'[s] = Append(icmsg[s], <<MSG_RELEASE_DATA, i>>)

\* C35: a buffer held by the receive callback stays reserved on the sender:
\* until release_rx_buffer no RELEASE_DATA for it is on the link and the
\* blocks of the buffer are set in the sender's bitmap; release_rx_buffer sends exactly one
\* RELEASE_DATA for the first block index, and when the sender has processed
\* it every block of the buffer is free.
C35_HeldUntilReleased ==
  [][/\ HeldReserved
     /\ \A s \in Sides : \A i \in Blocks :
          TakesLastHeld(s, i) => \A b \in Blocks : ~tx_usage_bitmap'[s][b]]_vars

\* the part of C35 before the sender frees
C35_HeldReserved == [][HeldReserved]_vars

\* the freeing for buffers of at least one byte
C35_HeldFreedNonEmpty ==
  [][\A s \in Sides : \A i \in Blocks :
       TakesLastHeld(s, i) /\ shmem[s][i].size > 0
         => \A b \in Blocks : ~tx_usage_bitmap'[s][b]]_vars

\* a message of two blocks was held, released by release_rx_buffer, and the
\* sender has freed both blocks
C35_Witness ==
  /\ rxh[1].pc = "idle" /\ rxh[1].held /\ rxh[1].bufs = {}
  /\ shmem[0][rxh[1].idx].size = BlockSize - BLOCK_HEADER_SIZE + 1
  /\ icmsg[0] = <<>> /\ icmsg[1] = <<>>
  /\ thr[0][1].op = "send" /\ thr[0][1].r = 0 /\ log[0].ops = 1
  /\ \A b \in Blocks : ~tx_usage_bitmap[0][b]

\* a message of no byte was held and released, the sender has processed the
\* RELEASE_DATA, and blocks of the buffer are still set
C35_LeakAfterHold ==
  ~(/\ rxh[1].pc = "idle" /\ rxh[1].held /\ rxh[1].bufs = {}
    /\ shmem[0][rxh[1].idx].size = 0
    /\ icmsg[0] = <<>> /\ icmsg[1] = <<>>
    /\ thr[0][1].op = "send" /\ thr[0][1].r = 0 /\ thr[0][1].buf = NoBuf
    /\ log[0].ops = 1
    /\ \E b \in Blocks : tx_usage_bitmap[0][b])


(***************************************************************************)
(* The receive callback and the bound callback (SpecCache: bonding from    *)
(* the start, and a peer that sends on an endpoint once it is READY there) *)
(***************************************************************************)
\* the receive callback of endpoint e of side s is running
InReceiveCallback(s, e) == rxh[s].pc = "cb" /\ rxh[s].addr = e

\* C36: the receive callback of an endpoint is never invoked before the
\* bound callback of that endpoint has been invoked, when the peer sends
\* only on endpoints that are READY on its side.
C36_BoundBeforeReceive ==
  \A s \in Sides : \A e \in 0 .. (NUM_EP - 1) :
    InReceiveCallback(s, e) => log[s].bound_cb[e] >= 1

\* what does hold: the receive callback runs only when the endpoint's own
\* BOUND message was acknowledged (BOUNDED or READY) and the peer's address
\* is known
C36_BoundedBeforeReceive ==
  \A s \in Sides : \A e \in 0 .. (NUM_EP - 1) :
    InReceiveCallback(s, e) =>
      /\ ept[s][e].state \in {EPT_BOUNDED, EPT_READY}
      /\ ept[s][e].remote_addr # EPT_ADDR_INVALID

\* the receive callback runs on an endpoint that is READY
C36_Witness ==
  \E e \in 0 .. (NUM_EP - 1) :
    InReceiveCallback(1, e) /\ ept[1][e].state = EPT_READY /\ log[1].bound_cb[e] = 1


(***************************************************************************)
(* Properties of announced buffers (SpecNocopy, SpecData, SpecBond)        *)
(***************************************************************************)
\* the buffer at TX block i of side s is with the peer: its data or BOUND
\* notification is on the link, or the peer's receive callback runs on it,
\* or the peer's application holds it, or it waits in the peer's table of
\* BOUND messages with no RELEASE_BOUND sent for it
Announced(s, i) ==
  \/ \E k \in 1 .. Len(icmsg[s]) :
       /\ Len(icmsg[s][k]) = 2
       /\ icmsg[s][k][2] = i
       /\ icmsg[s][k][1] \notin {MSG_RELEASE_DATA, MSG_RELEASE_BOUND}
  \/ rxh[Peer(s)].pc = "cb" /\ rxh[Peer(s)].idx = i
  \/ i \in rxh[Peer(s)].bufs
  \/ \E k \in 0 .. (NUM_EP - 1) :
       /\ waiting_bound_msg[Peer(s)][k] = i
       /\ ~(work[Peer(s)].pc = "rel_done" /\ work[Peer(s)].i = k /\ work[Peer(s)].r >= 0)

\* the first block of the buffer and every block its header size covers are
\* set in the TX bitmap of side s
Reserved(s, i) == \A b \in RunOf(s, i) \cup {i} : tx_usage_bitmap[s][b]

\* C37: every block run announced to the peer stays reserved in the
\* sender's TX bitmap until the peer's release of it is processed, for any
\* len given to send or send_nocopy.
C37_AnnouncedReserved ==
  \A s \in Sides : \A i \in Blocks : Announced(s, i) => Reserved(s, i)

\* send_nocopy with a len above INT_MAX has announced a buffer whose first
\* block is free
C37_AnnouncedFree ==
  ~(/\ thr[0][1].op = "nocopy" /\ thr[0][1].r = 0 /\ thr[0][1].size > INT_MAX
    /\ \E i \in Blocks : Announced(0, i) /\ ~tx_usage_bitmap[0][i])

\* a buffer of two blocks is announced and reserved
C37_Witness ==
  \E i \in Blocks :
    /\ Announced(0, i)
    /\ shmem[0][i].size = BlockSize - BLOCK_HEADER_SIZE + 1
    /\ tx_usage_bitmap[0][i] /\ tx_usage_bitmap[0][i + 1]


(***************************************************************************)
(* SpecUnbound: bonding from the start, with an application on side 0 that *)
(* calls send with the token of register_ept while the endpoint has no     *)
(* remote address yet, before or after the link is ready.                  *)
(***************************************************************************)
UnboundSend ==
  \E e \in 0 .. (NUM_EP - 1) : \E len \in {1} :
    /\ e < ept_count[0]
    /\ ept[0][e].remote_addr = EPT_ADDR_INVALID
    /\ send(0, 1, e, len)

NextUnbound ==
  \/ \E s \in Sides : IcmsgBound(s)
  \/ \E s \in Sides : register_ept(s, NameA)
  \/ \E s \in Sides : Worker(s)
  \/ \E s \in Sides : ReceivedBonding(s)
  \/ UnboundSend
  \/ \E s \in Sides : received_data(s)

SpecUnbound == InitBond /\ [][NextUnbound]_vars

\* the data notifications of side s on the link
DataOnLink(s) ==
  {k \in 1 .. Len(icmsg[s]) :
     Len(icmsg[s][k]) = 2 /\
     icmsg[s][k][1] \notin {MSG_RELEASE_DATA, MSG_BOUND, MSG_RELEASE_BOUND}}

\* thread 1 of side 0 calls send
SendCalled == thr'[0][1].op = "send" /\ log'[0].ops = log[0].ops + 1

\* no endpoint of side 0 has a remote address
NoneBound == \A e \in 0 .. (NUM_EP - 1) : ept[0][e].remote_addr = EPT_ADDR_INVALID

\* C38: every data notification on the link carries a receiver address in
\* 0 .. EPT_ADDR_MAX, and a send on an endpoint whose remote address is
\* still EPT_ADDR_INVALID puts nothing on the link and leaves no TX block
\* reserved.
C38_AddressLearned ==
  [][/\ \A s \in Sides : \A k \in DataOnLink(s)' : icmsg'[s][k][1] <= EPT_ADDR_MAX
     /\ SendCalled /\ NoneBound =>
          /\ icmsg'[0] = icmsg[0]
          /\ tx_usage_bitmap'[0] = tx_usage_bitmap[0]]_vars

\* with senders that wait for READY: every data notification carries the
\* address of an endpoint the receiver has registered, whose BOUND message
\* has been sent
C38_ReadyAddress ==
  \A s \in Sides : \A k \in DataOnLink(s) :
    /\ icmsg[s][k][1] < ept_count[Peer(s)]
    /\ ept[Peer(s)][icmsg[s][k][1]].state \in {EPT_BOUNDING, EPT_BOUNDED, EPT_READY}

\* a send on an endpoint without a remote address has returned 0, its
\* notification (0xFF, block) is on the link of a ready link and its block
\* is set
C38_InvalidSent ==
  ~(/\ icmsg_bounded[0] /\ icmsg_bounded[1]
    /\ thr[0][1].op = "send" /\ thr[0][1].r = 0
    /\ \E k \in DataOnLink(0) :
         icmsg[0][k][1] = EPT_ADDR_INVALID /\ tx_usage_bitmap[0][icmsg[0][k][2]])

\* a data notification with a learned address is on the link
C38_Witness ==
  \E k \in DataOnLink(0) : icmsg[0][k][1] = 0 /\ ept[1][0].state = EPT_READY


(***************************************************************************)
(* Properties of the table of waiting BOUND messages (SpecRegister: both   *)
(* sides have NUM_EP entries and register up to NUM_EP endpoints; a        *)
(* registration beyond that is refused)                                    *)
(***************************************************************************)
\* BOUND messages side s has received and not yet matched
PendingBound(s) ==
  Cardinality({k \in 0 .. (NUM_EP - 1) : waiting_bound_msg[s][k] # WAITING_BOUND_MSG_EMPTY})

\* BOUND messages on the way to side s
BoundOnLink(s) ==
  Cardinality({k \in 1 .. Len(icmsg[Peer(s)]) : icmsg[Peer(s)][k][1] = MSG_BOUND})

\* C39: with the same table size on both sides the table of waiting BOUND
\* messages never overflows: the BOUND messages received and not yet
\* matched, with those still on the link, are at most NUM_EP, and
\* received_bound never returns -ENOMEM.
C39_NoOverflow ==
  \A s \in Sides :
    /\ PendingBound(s) + BoundOnLink(s) <= NUM_EP
    /\ log[s].rx # -ENOMEM

\* every entry of the table of side 0 is taken, by BOUND messages stored
\* without an error
C39_Witness == PendingBound(0) = NUM_EP /\ log[0].rx = 0


(***************************************************************************)
(* Flow control of the FIFO (SpecFifoLive: SpecFifo where a thread that    *)
(* can take a step is scheduled in the end)                                *)
(***************************************************************************)
\* both threads run: the sender's thread and the peer's rx_thread are
\* scheduled whenever they are ready
FairFifo == WF_vars(NextFifo)

SpecFifoLive == SpecFifo /\ FairFifo

\* the n items of the ring from index i on
ItemsFrom(i, n) == {(i + k) % FifoCount : k \in 0 .. (n - 1)}

\* the items that hold messages published and not yet consumed
Unconsumed ==
  ItemsFrom(fifo.read_index,
            (fifo.write_index + FifoCount - fifo.read_index) % FifoCount)

\* the items of the message the sender is about to write
Writing == ItemsFrom(fifo.tx.write_index, 1 + DataItems(fifo.tx.size))

\* the sender writes its message into the ring
WritesMessage == fifo.tx.pc = "write" /\ fifo'.tx.pc = "publish"

\* the sender is blocked in k_sem_take while a message is in the ring
BlockedForSpace == fifo.tx.pc = "wait" /\ fifo.read_index # fifo.write_index

\* read and write index are below the item count; the sender writes only
\* items that hold no unconsumed data, only the items of its message, and
\* leaves one item empty
FlowControl ==
  /\ fifo.read_index < FifoCount /\ fifo.write_index < FifoCount
  /\ WritesMessage =>
       /\ Writing \cap Unconsumed = {}
       /\ Cardinality(Writing) + Cardinality(Unconsumed) <= FifoCount - 1
       /\ \A k \in DOMAIN fifo.data :
            fifo'.data[k] # fifo.data[k] => (k \div ITEM_SIZE) \in Writing
       /\ fifo'.tx.write_index \notin Unconsumed

\* C40: the indexes stay below the item count, the sender never writes an
\* item that holds data not yet consumed and always leaves one item empty,
\* and a sender blocked for space while a message is in the ring is woken
\* in the end: the ACK handshake loses no wake-up.
C40_FlowControl ==
  /\ [][FlowControl]_vars
  /\ BlockedForSpace ~> (fifo.tx.pc # "wait")

\* the sender is blocked in k_sem_take with its ACK request at the read
\* index it saw; the receiver has consumed a message since and has finished
\* its ACK step, and the semaphore is given
C40_Witness ==
  /\ fifo.tx.pc = "wait"
  /\ fifo.ack_index = fifo.tx.read_index
  /\ fifo.read_index # fifo.tx.read_index
  /\ fifo.rx.pc = "idle"
  /\ fifo.tx_sem = 1
====
